---- MODULE Spec2Model ----
(***************************************************************************)
(* Model of the myCobot 280 motor bus adapter (MyCobotMotorsBus) and of    *)
(* the calibration procedures built on it.                                 *)
(*                                                                         *)
(* Part A: the adapter, src/lerobot/common/robot_devices/motors/mycobot.py *)
(*         (specification Spec).                                           *)
(***************************************************************************)
EXTENDS Integers, Sequences, FiniteSets, TLC

\* ------------------------------------------------------------------------
\* Bounds of the model
\* ------------------------------------------------------------------------

\* Length of the angle list the transport returns from get_angles()
\* (6 on the real arm; the adapter never looks at the length).
NumAngles == 2

\* ------------------------------------------------------------------------
\* Part A: configuration of the adapters
\* ------------------------------------------------------------------------

\* Two MyCobotMotorsBus objects, both constructed with the same port.
Buses == {"busA", "busB"}

\* Every bus of the model is constructed with this port (self._port).
Port == "/dev/ttyUSB0"

\* self._motors: motor name -> motor id (1-based bus address).
motors == [j1 |-> 1, j2 |-> 2]

\* list(self._motors.keys())
MotorNames == DOMAIN motors

\* Angles (degrees) the transport reports and callers request.
Angles == {0, 10}

\* Python's None, for an absent motor_names argument or an absent return.
None == "None"

\* Python list indexing: lists are 0-based, TLA+ sequences 1-based.
Item(list, i) == list[i + 1]

\* All angle lists the transport can return.
AngleLists == [1..NumAngles -> Angles]

VARIABLES
  self_motors,        \* self._motors, per bus: motor name -> motor id
  connected,          \* self._connected, per bus
  mycobot,            \* self._mycobot, per bus: None or a transport object
  mock,               \* self._mock, per bus (fixed at construction)
  MYCOBOT_AVAILABLE,  \* module flag: pymycobot could be imported
  commanded,          \* the last angle list the arm accepted (<<>>: none yet)
  op,                 \* the last adapter call: [name, bus, args]
  outcome,            \* how it ended: "ok" or the exception raised
  ret,                \* what it returned
  tcalls              \* the transport calls it made, in order

busVars == <<self_motors, connected, mycobot, mock, MYCOBOT_AVAILABLE, commanded,
             op, outcome, ret, tcalls>>

VARIABLES
  arm_motors,    \* arm._motors
  sim,           \* the simulated bus: "any" feedback, or an arm with "stops"
  feedback,      \* sim = "any": the positions a read may report
  stops,         \* sim = "stops": <<lowest, highest>> reachable position
  pos,           \* sim = "stops": the position of every motor
  pc,            \* where the calibration code stands
  dir,           \* limit search: "min" or "max"
  motor_name,    \* the motor being calibrated / searched
  current_pos,   \* limit search: current_pos
  next_pos,      \* limit search: the last next_pos commanded
  new_pos,       \* limit search: the position re-read after the last command
  confirmations, \* manual calibration: input() calls that have returned
  call_types,    \* calibration: <<robot_type, arm_type>> of the call
  nCmd,          \* limit search: motion commands issued (saturating)
  detected,      \* limit search: the convergence test succeeded
  result,        \* limit search: the value returned
  runs,          \* limit searches completed (saturating)
  initial_pos,   \* auto calibration: initial_pos of the current motor
  min_pos,       \* auto calibration: min_pos of the current motor
  calib,         \* calibration: the record built so far
  zero_positions,     \* manual calibration: the reading at the zero pose
  rotated_positions,  \* manual calibration: the reading at the rotated pose
  last_call,     \* the last bus call of the calibration code: <<name, argument>>
  error          \* the exception the calibration code raised, or None

calVars == <<arm_motors, call_types, new_pos, confirmations,
             sim, feedback, stops, pos, pc, dir, motor_name,
             current_pos, next_pos, nCmd, detected, result, runs,
             initial_pos, min_pos, calib, zero_positions, rotated_positions,
             last_call, error>>

\* The locals of manual calibration.
manVars == <<zero_positions, rotated_positions>>

\* The control modes of src/control_single_arm.py.
VARIABLES
  ctl_pc,             \* where the control mode stands
  cfg_arms,           \* calibrate: cfg.arms (None or a list of arm ids)
  available_arms,     \* calibrate: robot.available_arms
  calibration_files,  \* calibrate: the arm ids whose calibration file exists
  is_connected,       \* calibrate: robot.is_connected
  robot_calls,        \* calibrate: file removals and robot calls made, in order
  ctl_error,          \* the exception the control mode raised, or None
  num_episodes,       \* record: cfg.num_episodes
  events,             \* record: the dictionary of the keyboard listener
  recorded_episodes,  \* record: recorded_episodes
  saved_episodes,     \* record: dataset.save_episode() calls that returned
  episode_buffer,     \* record: the episode buffer of the dataset
  episodes_started,   \* record: record_episode() calls made (saturating)
  stopped_in_episode  \* record: stop_recording was set inside record_episode()

ctlVars == <<ctl_pc, cfg_arms, available_arms, calibration_files, is_connected,
             robot_calls, ctl_error, num_episodes, events, recorded_episodes,
             saved_episodes, episode_buffer, episodes_started,
             stopped_in_episode>>

vars == <<busVars, calVars, ctlVars>>

\* No control mode is running.
CtlIdle ==
  /\ ctl_pc = "idle"
  /\ cfg_arms = [is_none |-> TRUE, list |-> <<>>]
  /\ available_arms = <<>>
  /\ calibration_files = {}
  /\ is_connected = FALSE
  /\ robot_calls = <<>>
  /\ ctl_error = None
  /\ num_episodes = 0
  /\ events = [stop_recording |-> FALSE, rerecord_episode |-> FALSE,
               exit_early |-> FALSE]
  /\ recorded_episodes = 0
  /\ saved_episodes = 0
  /\ episode_buffer = "empty"
  /\ episodes_started = 0
  /\ stopped_in_episode = FALSE

\* One transport call: function, arguments, result, whether it raised.
TCall(fn, args, res, raised) ==
  [fn |-> fn, args |-> args, res |-> res, raised |-> raised]

\* Mutant of OutcomeOf: the except-clauses swallow the exception.
OutcomeOfSwallowed(calls) == "ok"

\* The outcome of an adapter call whose transport calls are calls: the
\* except-clauses log and re-raise, so a raising transport call surfaces.
OutcomeOf(calls) ==
  IF \E i \in 1..Len(calls) : calls[i].raised THEN "TransportError" ELSE "ok"

\* Bookkeeping of a call (no program state).
Record(name, b, args, out, r, calls) ==
  /\ op' = [name |-> name, bus |-> b, args |-> args]
  /\ outcome' = out
  /\ ret' = r
  /\ tcalls' = calls
  /\ UNCHANGED <<self_motors, calVars, ctlVars>>

\* ------------------------------------------------------------------------
\* __init__
\* ------------------------------------------------------------------------

\* Motor ids callers configure: the ends of the supported range 1..6 and
\* the ids next to them.
MotorIds == {0, 1, 6, 7}

\* The motors arguments callers pass to the constructor.
MotorsArgs == [MotorNames -> MotorIds]

\* No adapter object: the constructor has not returned one for this bus.
NoObject == <<>>

\* The caller holds an adapter object for bus b.
Constructed(b) == DOMAIN self_motors[b] # {}

\* Mutant of ValidMotorId: ids up to 7 pass.
ValidMotorIdUpTo7(motor_id) == ~(motor_id < 1 \/ motor_id > 7)

\* Line 64: if motor_id < 1 or motor_id > 6: raise ValueError
ValidMotorId(motor_id) == ~(motor_id < 1 \/ motor_id > 6)

\* Lines 45-67: MyCobotMotorsBus(port, baud, motors, mock).  The fields are
\* assigned first; when the validation loop raises, the caller receives no
\* object, so nothing of the half-built one is kept.
Construct(b, motors_arg, mock_arg) ==
  /\ ~Constructed(b)
  /\ op' = [name |-> "__init__", bus |-> b, args |-> <<motors_arg, mock_arg>>]
  /\ ret' = None
  /\ tcalls' = <<>>
  /\ IF \A motor_name_ \in DOMAIN motors_arg : ValidMotorId(motors_arg[motor_name_])
       THEN /\ self_motors' = [self_motors EXCEPT ![b] = motors_arg]
            /\ mock' = [mock EXCEPT ![b] = mock_arg]
            /\ connected' = [connected EXCEPT ![b] = FALSE]
            /\ mycobot' = [mycobot EXCEPT ![b] = None]
            /\ outcome' = "ok"
       ELSE /\ outcome' = "ValueError"
            /\ UNCHANGED <<self_motors, mock, connected, mycobot>>
  /\ UNCHANGED <<MYCOBOT_AVAILABLE, commanded, calVars, ctlVars>>

\* ------------------------------------------------------------------------
\* connect / disconnect
\* ------------------------------------------------------------------------

\* Mutant of AlreadyConnectedGuard: the guard is missing.
AlreadyConnectedGuardMissing(b) == FALSE

\* connect(), line 71: if self._connected: raise AlreadyConnected
AlreadyConnectedGuard(b) == connected[b]

\* Mutant of NotConnectedGuard: the guard looks at the transport handle.
NotConnectedGuardOnHandle(b) == mycobot[b] = None /\ ~mock[b]

\* disconnect() line 96 and _ensure_connected() line 114:
\* if not self._connected: raise NotConnected
NotConnectedGuard(b) == ~connected[b]

\* Mutant of NewTransport: the transport object is not kept.
NewTransportDropped == None

\* Line 85: the transport object MyCobot280(self._port, self._baud) returns.
NewTransport == "MyCobot280"

Connect(b) ==
  /\ UNCHANGED <<mock, MYCOBOT_AVAILABLE, commanded>>
  /\ IF AlreadyConnectedGuard(b)
       THEN /\ Record("connect", b, <<>>, "AlreadyConnected", None, <<>>)
            /\ UNCHANGED <<connected, mycobot>>
     ELSE IF mock[b]
       THEN /\ connected' = [connected EXCEPT ![b] = TRUE]
            /\ UNCHANGED mycobot
            /\ Record("connect", b, <<>>, "ok", None, <<>>)
     ELSE IF ~MYCOBOT_AVAILABLE
       THEN /\ Record("connect", b, <<>>, "ImportError", None, <<>>)
            /\ UNCHANGED <<connected, mycobot>>
     ELSE \/ \* MyCobot280(port, baud) raises: nothing assigned
             /\ Record("connect", b, <<>>, "TransportError", None,
                       <<TCall("MyCobot280", <<Port>>, None, TRUE)>>)
             /\ UNCHANGED <<connected, mycobot>>
          \/ \* power_on() raises: the handle is kept, the flag stays False
             /\ mycobot' = [mycobot EXCEPT ![b] = NewTransport]
             /\ UNCHANGED connected
             /\ Record("connect", b, <<>>, "TransportError", None,
                       <<TCall("MyCobot280", <<Port>>, None, FALSE),
                         TCall("power_on", <<>>, None, TRUE)>>)
          \/ /\ mycobot' = [mycobot EXCEPT ![b] = NewTransport]
             /\ connected' = [connected EXCEPT ![b] = TRUE]
             /\ Record("connect", b, <<>>, "ok", None,
                       <<TCall("MyCobot280", <<Port>>, None, FALSE),
                         TCall("power_on", <<>>, None, FALSE)>>)

Disconnect(b) ==
  /\ UNCHANGED <<mock, MYCOBOT_AVAILABLE, commanded>>
  /\ IF NotConnectedGuard(b)
       THEN /\ Record("disconnect", b, <<>>, "NotConnected", None, <<>>)
            /\ UNCHANGED <<connected, mycobot>>
     ELSE IF mock[b]
       THEN /\ connected' = [connected EXCEPT ![b] = FALSE]
            /\ UNCHANGED mycobot
            /\ Record("disconnect", b, <<>>, "ok", None, <<>>)
     ELSE \/ \* power_off() raises: lines 105-106 are skipped
             /\ Record("disconnect", b, <<>>, "TransportError", None,
                       <<TCall("power_off", <<>>, None, TRUE)>>)
             /\ UNCHANGED <<connected, mycobot>>
          \/ /\ connected' = [connected EXCEPT ![b] = FALSE]
             /\ mycobot' = [mycobot EXCEPT ![b] = None]
             /\ Record("disconnect", b, <<>>, "ok", None,
                       <<TCall("power_off", <<>>, None, FALSE)>>)

\* ------------------------------------------------------------------------
\* reads
\* ------------------------------------------------------------------------

\* An absent motor_names argument (motor_names=None).
NoNames == {None}

\* What callers pass as motor_names: nothing, or a list of configured names.
NameArgs == {NoNames} \cup SUBSET MotorNames

\* Lines 131, 170, 195: motor_names = motor_names or list(self._motors.keys())
\* (None and the empty list are both falsy).
EffectiveNames(motor_names) ==
  IF motor_names = NoNames \/ motor_names = {} THEN MotorNames ELSE motor_names

\* Lines 144-147: positions[motor_name] = all_angles[motor_id - 1]
PositionsFrom(all_angles, names) ==
  [n \in names |-> Item(all_angles, motors[n] - 1)]

\* Lines 136-137, 174-175, 199-200: 0.0 for every requested motor.
Zeros(names) == [n \in names |-> 0]

ReadPresentPosition(b, motor_names) ==
  /\ UNCHANGED <<connected, mycobot, mock, MYCOBOT_AVAILABLE, commanded>>
  /\ LET args == <<motor_names>>
         names == EffectiveNames(motor_names)
     IN IF NotConnectedGuard(b)
          THEN Record("read_present_position", b, args, "NotConnected", None, <<>>)
        ELSE IF mock[b]
          THEN Record("read_present_position", b, args, "ok", Zeros(names), <<>>)
        ELSE \/ Record("read_present_position", b, args, "TransportError", None,
                       <<TCall("get_angles", <<>>, None, TRUE)>>)
             \/ \E all_angles \in AngleLists :
                  Record("read_present_position", b, args, "ok",
                         PositionsFrom(all_angles, names),
                         <<TCall("get_angles", <<>>, all_angles, FALSE)>>)

ReadPresentVelocity(b, motor_names) ==
  /\ UNCHANGED <<connected, mycobot, mock, MYCOBOT_AVAILABLE, commanded>>
  /\ IF NotConnectedGuard(b)
       THEN Record("read_present_velocity", b, <<motor_names>>, "NotConnected", None, <<>>)
       ELSE Record("read_present_velocity", b, <<motor_names>>, "ok",
                   Zeros(EffectiveNames(motor_names)), <<>>)

ReadPresentCurrent(b, motor_names) ==
  /\ UNCHANGED <<connected, mycobot, mock, MYCOBOT_AVAILABLE, commanded>>
  /\ IF NotConnectedGuard(b)
       THEN Record("read_present_current", b, <<motor_names>>, "NotConnected", None, <<>>)
       ELSE Record("read_present_current", b, <<motor_names>>, "ok",
                   Zeros(EffectiveNames(motor_names)), <<>>)

\* ------------------------------------------------------------------------
\* writes
\* ------------------------------------------------------------------------

\* What callers pass as positions: a dict from some configured motors to angles.
PositionMaps == UNION {[S -> Angles] : S \in SUBSET MotorNames}

\* Mutant of NewAngles: un-addressed entries are zeroed instead of copied.
NewAnglesZeroed(current_angles, positions) ==
  [p \in DOMAIN current_angles |->
     LET k == p - 1
     IN IF \E n \in DOMAIN positions : motors[n] - 1 = k
          THEN positions[CHOOSE n \in DOMAIN positions : motors[n] - 1 = k]
          ELSE 0]

\* Lines 221-227: new_angles = current_angles.copy();
\* new_angles[motor_id - 1] = position for every addressed motor.
NewAngles(current_angles, positions) ==
  [p \in DOMAIN current_angles |->
     LET k == p - 1
     IN IF \E n \in DOMAIN positions : motors[n] - 1 = k
          THEN positions[CHOOSE n \in DOMAIN positions : motors[n] - 1 = k]
          ELSE Item(current_angles, k)]

\* Line 230: send_angles(new_angles, 50)
SendSpeed == 50

WriteGoalPosition(b, positions) ==
  /\ UNCHANGED <<connected, mycobot, mock, MYCOBOT_AVAILABLE>>
  /\ LET args == <<positions>>
     IN IF NotConnectedGuard(b)
          THEN /\ Record("write_goal_position", b, args, "NotConnected", None, <<>>)
               /\ UNCHANGED commanded
        ELSE IF mock[b]
          THEN /\ Record("write_goal_position", b, args, "ok", None, <<>>)
               /\ UNCHANGED commanded
        ELSE \/ /\ Record("write_goal_position", b, args, "TransportError", None,
                          <<TCall("get_angles", <<>>, None, TRUE)>>)
                /\ UNCHANGED commanded
             \/ \E current_angles \in AngleLists :
                  LET new_angles == NewAngles(current_angles, positions)
                      read == TCall("get_angles", <<>>, current_angles, FALSE)
                  IN \/ /\ Record("write_goal_position", b, args, "TransportError", None,
                                  <<read, TCall("send_angles", <<new_angles, SendSpeed>>, None, TRUE)>>)
                        /\ UNCHANGED commanded
                     \/ /\ Record("write_goal_position", b, args, "ok", None,
                                  <<read, TCall("send_angles", <<new_angles, SendSpeed>>, None, FALSE)>>)
                        /\ commanded' = new_angles

\* One adapter call that makes exactly one transport call fn(args).
OneTransportCall(name, b, callArgs, fn, fnArgs) ==
  /\ UNCHANGED <<connected, mycobot, mock, MYCOBOT_AVAILABLE, commanded>>
  /\ IF NotConnectedGuard(b)
       THEN Record(name, b, callArgs, "NotConnected", None, <<>>)
     ELSE IF mock[b]
       THEN Record(name, b, callArgs, "ok", None, <<>>)
     ELSE \E raised \in BOOLEAN :
            LET calls == <<TCall(fn, fnArgs, None, raised)>>
            IN Record(name, b, callArgs, OutcomeOf(calls), None, calls)

\* Lines 252-255: power_on() when enable, else power_off().
WriteTorqueEnable(b, enable) ==
  OneTransportCall("write_torque_enable", b, <<enable>>,
                   IF enable THEN "power_on" ELSE "power_off", <<>>)

\* Colours the callers use: blue (calibrating) and green (done).
Colors == {<<0, 0, 255>>, <<0, 255, 0>>}

\* Lines 275-276: r, g, b = color; set_color(r, g, b)
WriteLed(b, color) ==
  OneTransportCall("write_led", b, <<color>>, "set_color", color)

\* Lines 296-299: set_gripper_value(0, 50) closes, set_gripper_value(255, 50) opens.
SetGripper(b, enable) ==
  OneTransportCall("set_gripper", b, <<enable>>, "set_gripper_value",
                   IF enable THEN <<0, 50>> ELSE <<255, 50>>)

\* ------------------------------------------------------------------------
\* Specification of the adapter
\* ------------------------------------------------------------------------

\* __init__, lines 55-60: no transport, not connected; mock as constructed.
BusInit ==
  /\ self_motors = [b \in Buses |-> motors]
  /\ connected = [b \in Buses |-> FALSE]
  /\ mycobot = [b \in Buses |-> None]
  /\ mock \in [Buses -> BOOLEAN]
  /\ MYCOBOT_AVAILABLE \in BOOLEAN
  /\ commanded = <<>>
  /\ op = [name |-> "__init__", bus |-> "busA", args |-> <<>>]
  /\ outcome = "ok"
  /\ ret = None
  /\ tcalls = <<>>

BusNext ==
  \E b \in Buses :
    \/ Connect(b)
    \/ Disconnect(b)
    \/ \E motor_names \in NameArgs : ReadPresentPosition(b, motor_names)
    \/ \E motor_names \in NameArgs : ReadPresentVelocity(b, motor_names)
    \/ \E motor_names \in NameArgs : ReadPresentCurrent(b, motor_names)
    \/ \E positions \in PositionMaps : WriteGoalPosition(b, positions)
    \/ \E enable \in BOOLEAN : WriteTorqueEnable(b, enable)
    \/ \E color \in Colors : WriteLed(b, color)
    \/ \E enable \in BOOLEAN : SetGripper(b, enable)

\* Adapters are constructed; the methods that do not index the angle list
\* are called on the adapters that exist.
ConstructNext ==
  \E b \in Buses :
    \/ \E motors_arg \in MotorsArgs : \E mock_arg \in BOOLEAN :
         Construct(b, motors_arg, mock_arg)
    \/ Constructed(b) /\ Connect(b)
    \/ Constructed(b) /\ Disconnect(b)
    \/ Constructed(b) /\ \E enable \in BOOLEAN : WriteTorqueEnable(b, enable)
    \/ Constructed(b) /\ \E color \in Colors : WriteLed(b, color)
    \/ Constructed(b) /\ \E enable \in BOOLEAN : SetGripper(b, enable)

\* ========================================================================
\* Part B: limit search, automatic and manual calibration,
\* src/lerobot/common/robot_devices/robots/mycobot_calibration.py
\* (specifications SpecSearch and SpecAuto).
\*
\* Positions are Python floats in degrees.  The model keeps them as integers
\* counting eighths of a degree, so that quarter degrees (below the 0.5
\* degree threshold) and the halving in center_pos are exact.
\* ========================================================================

\* d degrees, in eighths of a degree.
Deg(d) == 8 * d

\* A quarter of a degree.
QuarterDeg == Deg(1) \div 4

Max(a, b) == IF a >= b THEN a ELSE b

Min(a, b) == IF a <= b THEN a ELSE b

Abs(a) == IF a >= 0 THEN a ELSE 0 - a

\* Saturation value of the model's counters of commands and runs.
MaxCount == 3

\* Lines 31-38 with the default of JOINT_LIMITS.get(..., (-170, 170)).
JOINT_LIMITS(joint_number) ==
  IF joint_number = 6 THEN <<Deg(-175), Deg(175)>> ELSE <<Deg(-170), Deg(170)>>

\* Lines 150 / 197: the nominal limit of the search direction.
expected_limit(d, joint_number) ==
  IF d = "min" THEN JOINT_LIMITS(joint_number)[1] ELSE JOINT_LIMITS(joint_number)[2]

\* Mutant of target_pos: no overshoot margin, the nominal limit is the bound.
target_pos_nominal(d, joint_number) == expected_limit(d, joint_number)

\* Lines 157 / 204: target_pos = expected_limit - 20 / expected_limit + 20
target_pos(d, joint_number) ==
  IF d = "min" THEN expected_limit(d, joint_number) - Deg(20)
               ELSE expected_limit(d, joint_number) + Deg(20)

\* Lines 158 / 205: step_size = 5 degrees
step_size == Deg(5)

\* Mutant of LoopCondition: the loop body runs whatever was read.
LoopConditionAlways(d, pos_, target) == TRUE

\* Mutant of Converged: the threshold is 1 degree.
ConvergedWithinOneDegree(new, cur) ==
  (IF new >= cur THEN new - cur ELSE cur - new) < Deg(1)

\* Lines 162 / 209: while current_pos > target_pos / current_pos < target_pos
LoopCondition(d, pos_, target) ==
  IF d = "min" THEN pos_ > target ELSE pos_ < target

\* Mutant of NextPosition: steps of twice the step size.
NextPositionDoubleStep(d, pos_, target) ==
  IF d = "min" THEN Max(pos_ - 2 * step_size, target)
               ELSE Min(pos_ + 2 * step_size, target)

\* Mutant of NextPosition: the step is not clamped to the target bound.
NextPositionUnclamped(d, pos_, target) ==
  IF d = "min" THEN pos_ - step_size ELSE pos_ + step_size

\* Lines 164 / 211: next_pos = max(current_pos - step_size, target_pos) /
\* min(current_pos + step_size, target_pos)
NextPosition(d, pos_, target) ==
  IF d = "min" THEN Max(pos_ - step_size, target) ELSE Min(pos_ + step_size, target)

\* Mutant of Converged: the test is never true.
ConvergedNever(new, cur) == FALSE

\* Lines 174 / 221: abs(new_pos - current_pos) < 0.5
Converged(new, cur) == Abs(new - cur) < Deg(1) \div 2

\* No position (a variable not assigned yet).
NoPos == Deg(1000)

\* Arms the calibration is run on: arm._motors as an ordered list of
\* (name, motor id); dict order is insertion order.
ArmConfigs ==
  { << <<"joint1", 1>>, <<"joint6", 6>> >>,
    << <<"joint1", 1>>, <<"joint2", 2>> >>,
    << <<"gripper", 2>>, <<"joint1", 1>> >>,
    << <<"gripper", 1>> >> }


\* list(arm._motors.keys())
motor_names == [i \in 1..Len(arm_motors) |-> arm_motors[i][1]]

\* arm._motors[motor_name][0]
JointNumber(name) ==
  LET i == CHOOSE i \in 1..Len(arm_motors) : arm_motors[i][1] = name
  IN arm_motors[i][2]

\* Saturating increment of a model counter.
Inc(n) == Min(n + 1, MaxCount)

\* ------------------------------------------------------------------------
\* The simulated bus
\* ------------------------------------------------------------------------

\* What arm.read_present_position([name])[name] may return.
BusRead(name) == IF sim = "any" THEN feedback ELSE {pos[name]}

\* The position a motor of an arm with stops reaches when commanded to p.
Reached(p) == Max(stops[1], Min(stops[2], p))

\* The arm after arm.write_goal_position(positions) and the settle delay.
BusWrite(positions) ==
  pos' = IF sim = "stops"
           THEN [n \in DOMAIN pos |->
                   IF n \in DOMAIN positions THEN Reached(positions[n]) ELSE pos[n]]
           ELSE pos

\* ------------------------------------------------------------------------
\* find_joint_min_position / find_joint_max_position
\* ------------------------------------------------------------------------

\* The value a search returns: it leaves the loop, or the function.
Return(value) ==
  /\ result' = value
  /\ runs' = Inc(runs)
  /\ pc' = "s_ret"

\* Lines 162 / 209 evaluated on a freshly assigned current_pos.
LoopOrReturn(cur) ==
  /\ current_pos' = cur
  /\ IF LoopCondition(dir, cur, target_pos(dir, JointNumber(motor_name)))
       THEN /\ pc' = "s_write"
            /\ UNCHANGED <<result, runs>>
       ELSE Return(cur)

\* Lines 147-162 / 194-209: the first read and the first loop test.
SearchBegin ==
  /\ UNCHANGED <<busVars, manVars, ctlVars>>
  /\ pc = "s_begin"
  /\ \E v \in BusRead(motor_name) :
       /\ LoopOrReturn(v)
       /\ last_call' = <<"read_present_position", motor_name>>
  /\ UNCHANGED <<arm_motors, call_types, new_pos, confirmations, sim, feedback, stops, pos, dir, motor_name,
                 next_pos, nCmd, detected, initial_pos, min_pos, calib, error>>

\* Lines 164-168 / 211-215: command one step and wait.
SearchWrite ==
  /\ UNCHANGED <<busVars, manVars, ctlVars>>
  /\ pc = "s_write"
  /\ LET next == NextPosition(dir, current_pos, target_pos(dir, JointNumber(motor_name)))
     IN /\ next_pos' = next
        /\ BusWrite([n \in {motor_name} |-> next])
        /\ last_call' = <<"write_goal_position", [n \in {motor_name} |-> next]>>
  /\ nCmd' = Inc(nCmd)
  /\ pc' = "s_read"
  /\ UNCHANGED <<arm_motors, call_types, new_pos, confirmations, sim, feedback, stops, dir, motor_name, current_pos,
                 detected, result, runs, initial_pos, min_pos, calib, error>>

\* Lines 171-178 / 218-225 and the next loop test: re-read, test convergence.
SearchRead ==
  /\ UNCHANGED <<busVars, manVars, ctlVars>>
  /\ pc = "s_read"
  /\ \E new \in BusRead(motor_name) :
       /\ new_pos' = new
       /\ last_call' = <<"read_present_position", motor_name>>
       /\ IF Converged(new, current_pos)
            THEN /\ detected' = TRUE
                 /\ Return(new)
                 /\ UNCHANGED current_pos
            ELSE /\ LoopOrReturn(new)
                 /\ UNCHANGED detected
  /\ UNCHANGED <<arm_motors, call_types, confirmations, sim, feedback, stops, pos, dir, motor_name,
                 next_pos, nCmd, initial_pos, min_pos, calib, error>>

\* A caller invokes find_joint_min_position / find_joint_max_position.
EnterSearch(d, name) ==
  /\ dir' = d
  /\ motor_name' = name
  /\ pc' = "s_begin"
  /\ nCmd' = 0
  /\ detected' = FALSE
  /\ next_pos' = NoPos
  /\ new_pos' = NoPos
  /\ current_pos' = NoPos
  /\ result' = NoPos

\* Motors limit search may be called for.
Joints == {motor_names[i] : i \in 1..Len(motor_names)} \ {"gripper"}

\* Mutant of RaisedPc: an error handler goes on to the return-to-center move.
RaisedPcSafePose == "a_centers"

\* Where the calibration code stands once a bus call raised: no function of
\* the module has a try block, the exception leaves every one of them.
RaisedPc == "raised"

\* A bus call of the calibration code raises.  At a_entry the call is the
\* one of line 63, reached only by a call whose types passed line 54.
Raise(call) ==
  /\ UNCHANGED <<busVars, manVars, ctlVars>>
  /\ last_call' = call
  /\ error' = "TransportError"
  /\ pc' = RaisedPc
  /\ call_types' = (IF pc = "a_entry" THEN <<"mycobot", "280">> ELSE call_types)
  /\ UNCHANGED <<arm_motors, new_pos, confirmations, sim, feedback, stops, pos, dir, motor_name,
                 current_pos, next_pos, nCmd, detected, result, runs,
                 initial_pos, min_pos, calib>>

\* Lines 153, 165, 171 / 200, 212, 218: a bus call of a limit search raises.
SearchRaises ==
  /\ pc \in {"s_begin", "s_write", "s_read"}
  /\ Raise(IF pc = "s_write"
             THEN <<"write_goal_position",
                    [n \in {motor_name} |->
                       NextPosition(dir, current_pos,
                                    target_pos(dir, JointNumber(motor_name)))]>>
             ELSE <<"read_present_position", motor_name>>)

\* A test harness calls one limit search after the other on the same arm.
CallSearch(d, name) ==
  /\ UNCHANGED <<busVars, manVars, ctlVars>>
  /\ pc \in {"idle", "s_ret"}
  /\ runs < MaxCount
  /\ EnterSearch(d, name)
  /\ UNCHANGED <<arm_motors, call_types, confirmations, sim, feedback, stops, pos, runs,
                 initial_pos, min_pos, calib, last_call, error>>

SearchNext ==
  \/ \E d \in {"min", "max"} : \E name \in Joints : CallSearch(d, name)
  \/ SearchBegin
  \/ SearchWrite
  \/ SearchRead
  \/ SearchRaises

\* ------------------------------------------------------------------------
\* run_arm_auto_calibration
\* ------------------------------------------------------------------------

\* Values callers pass as robot_type and arm_type.
RobotTypes == {"mycobot", "so100"}

ArmTypes == {"280", "320"}

\* No calibration call was made yet.
NoTypes == <<"none", "none">>

\* Mutant of Supported: only the robot type is checked.
SupportedRobotOnly(robot_type, arm_type) == robot_type = "mycobot"

\* Lines 54 and 272: the types the calibration functions accept.
Supported(robot_type, arm_type) == robot_type = "mycobot" /\ arm_type = "280"

\* Mutant of center_positions: the positions the joints started at.
initial_positions(c) ==
  [n \in DOMAIN c \ {"gripper"} |-> c[n].initial_pos]

\* Lines 120-124: the centers of the calibrated joints.
center_positions(c) ==
  [n \in DOMAIN c \ {"gripper"} |-> c[n].center_pos]

\* Mutant of AfterGripper: the combined move is always skipped.
AfterGripperSkipsMove(c) == "a_done"

\* Where the code goes once the joint loop and the gripper are done
\* (line 126: the combined move is skipped when there is no joint).
AfterGripper(c) ==
  IF DOMAIN center_positions(c) # {} THEN "a_centers" ELSE "a_done"

\* Mutant of Advance: the loop takes the last remaining motor first.
AdvanceLastFirst(i, c) ==
  LET rest == {j \in (i + 1)..Len(motor_names) : motor_names[j] # "gripper"}
  IN IF rest # {}
       THEN /\ motor_name' = motor_names[CHOOSE j \in rest : \A k \in rest : j >= k]
            /\ pc' = "a_initial"
       ELSE /\ UNCHANGED motor_name
            /\ pc' = IF \E j \in 1..Len(motor_names) : motor_names[j] = "gripper"
                       THEN "g_open"
                       ELSE AfterGripper(c)

\* Mutant of Advance: the loop does not skip the gripper.
AdvanceAnyMotor(i, c) ==
  IF i < Len(motor_names)
    THEN /\ motor_name' = motor_names[i + 1]
         /\ pc' = "a_initial"
    ELSE /\ UNCHANGED motor_name
         /\ pc' = AfterGripper(c)

\* Lines 73-76 and 115: the next motor of the loop after index i that is not
\* the gripper; after the last one the gripper, when configured.
Advance(i, c) ==
  LET rest == {j \in (i + 1)..Len(motor_names) : motor_names[j] # "gripper"}
  IN IF rest # {}
       THEN /\ motor_name' = motor_names[CHOOSE j \in rest : \A k \in rest : j <= k]
            /\ pc' = "a_initial"
       ELSE /\ UNCHANGED motor_name
            /\ pc' = IF \E j \in 1..Len(motor_names) : motor_names[j] = "gripper"
                       THEN "g_open"
                       ELSE AfterGripper(c)

\* Index of a motor in motor_names.
IndexOf(name) == CHOOSE i \in 1..Len(motor_names) : motor_names[i] = name

\* Mutant of Entry: the center is the position the joint started at.
EntryAroundInitial(initial, lo, hi) ==
  [initial_pos |-> initial,
   min_pos |-> lo,
   max_pos |-> hi,
   center_pos |-> initial,
   range |-> hi - lo]

\* Lines 97-108: the entry of a joint.  Every position of the model is an
\* even number of eighths, so the halving is exact.
Entry(initial, lo, hi) ==
  [initial_pos |-> initial,
   min_pos |-> lo,
   max_pos |-> hi,
   center_pos |-> (lo + hi) \div 2,
   range |-> hi - lo]

\* Lines 54-63: the type check, then write_torque_enable(True).
AutoEnter(robot_type, arm_type) ==
  /\ UNCHANGED <<busVars, manVars, ctlVars>>
  /\ pc = "a_entry"
  /\ call_types' = <<robot_type, arm_type>>
  /\ IF ~Supported(robot_type, arm_type)
       THEN /\ error' = "NotImplementedError"
            /\ pc' = "a_raised"
            /\ UNCHANGED last_call
       ELSE /\ last_call' = <<"write_torque_enable", TRUE>>
            /\ pc' = "a_led"
            /\ UNCHANGED error
  /\ UNCHANGED <<arm_motors, new_pos, confirmations, sim, feedback, stops, pos, dir, motor_name,
                 current_pos, next_pos, nCmd, detected, result, runs,
                 initial_pos, min_pos, calib>>

\* Lines 67-76: write_led(blue), calib = {}, the loop starts.
AutoLed ==
  /\ UNCHANGED <<busVars, manVars, ctlVars>>
  /\ pc = "a_led"
  /\ last_call' = <<"write_led", <<0, 0, 255>>>>
  /\ calib' = <<>>
  /\ Advance(0, <<>>)
  /\ UNCHANGED <<arm_motors, call_types, new_pos, confirmations, sim, feedback, stops, pos, dir,
                 current_pos, next_pos, nCmd, detected, result, runs,
                 initial_pos, min_pos, error>>

\* Lines 81-85: read initial_pos, call find_joint_min_position.
AutoInitial ==
  /\ UNCHANGED <<busVars, manVars, ctlVars>>
  /\ pc = "a_initial"
  /\ \E v \in BusRead(motor_name) : initial_pos' = v
  /\ last_call' = <<"read_present_position", motor_name>>
  /\ EnterSearch("min", motor_name)
  /\ min_pos' = NoPos
  /\ UNCHANGED <<arm_motors, call_types, confirmations, sim, feedback, stops, pos, runs, calib, error>>

\* Lines 85-93: min_pos is returned, write_led(green),
\* call find_joint_max_position.
AutoAfterMin ==
  /\ UNCHANGED <<busVars, manVars, ctlVars>>
  /\ pc = "s_ret" /\ dir = "min"
  /\ min_pos' = result
  /\ last_call' = <<"write_led", <<0, 255, 0>>>>
  /\ EnterSearch("max", motor_name)
  /\ UNCHANGED <<arm_motors, call_types, confirmations, sim, feedback, stops, pos, runs,
                 initial_pos, calib, error>>

\* Lines 93-112: max_pos is returned, the entry is stored, the joint is
\* moved to its center; then the next motor.
AutoAfterMax ==
  /\ UNCHANGED <<busVars, manVars, ctlVars>>
  /\ pc = "s_ret" /\ dir = "max"
  /\ LET max_pos == result
         entry == Entry(initial_pos, min_pos, max_pos)
         c == [n \in DOMAIN calib \cup {motor_name} |->
                 IF n = motor_name THEN entry ELSE calib[n]]
         move == [n \in {motor_name} |-> entry.center_pos]
     IN /\ calib' = c
        /\ BusWrite(move)
        /\ last_call' = <<"write_goal_position", move>>
        /\ Advance(IndexOf(motor_name), c)
  /\ UNCHANGED <<arm_motors, call_types, new_pos, confirmations, sim, feedback, stops, dir,
                 current_pos, next_pos, nCmd, detected, result, runs,
                 initial_pos, min_pos, error>>

\* Mutant of GripperEntry: the gripper entry carries a range like a joint's.
GripperEntryWithRange ==
  [calibrated |-> TRUE, min_pos |-> 0, max_pos |-> 0, offset |-> 0]

\* Lines 252-254 and 336-338: the gripper entry, {"calibrated": True}.
GripperEntry == [calibrated |-> TRUE]

\* calibrate_gripper, lines 241-250: open, close, open again; lines 252-254
\* and 117: the gripper entry.
GripperStep ==
  /\ UNCHANGED <<busVars, manVars, ctlVars>>
  /\ pc \in {"g_open", "g_close", "g_reopen"}
  /\ last_call' = <<"set_gripper", pc = "g_close">>
  /\ IF pc = "g_reopen"
       THEN LET c == [n \in DOMAIN calib \cup {"gripper"} |->
                        IF n = "gripper" THEN GripperEntry ELSE calib[n]]
            IN /\ calib' = c
               /\ pc' = AfterGripper(c)
       ELSE /\ pc' = IF pc = "g_open" THEN "g_close" ELSE "g_reopen"
            /\ UNCHANGED calib
  /\ UNCHANGED <<arm_motors, call_types, new_pos, confirmations, sim, feedback, stops, pos, dir, motor_name,
                 current_pos, next_pos, nCmd, detected, result, runs,
                 initial_pos, min_pos, error>>

\* Lines 126-129: all joints are moved to their centers in one call.
AutoCenters ==
  /\ UNCHANGED <<busVars, manVars, ctlVars>>
  /\ pc = "a_centers"
  /\ BusWrite(center_positions(calib))
  /\ last_call' = <<"write_goal_position", center_positions(calib)>>
  /\ pc' = "a_done"
  /\ UNCHANGED <<arm_motors, call_types, new_pos, confirmations, sim, feedback, stops, dir, motor_name,
                 current_pos, next_pos, nCmd, detected, result, runs,
                 initial_pos, min_pos, calib, error>>

\* Lines 132-135: write_led(green), return calib.
AutoDone ==
  /\ UNCHANGED <<busVars, manVars, ctlVars>>
  /\ pc = "a_done"
  /\ last_call' = <<"write_led", <<0, 255, 0>>>>
  /\ pc' = "a_return"
  /\ UNCHANGED <<arm_motors, call_types, new_pos, confirmations, sim, feedback, stops, pos, dir, motor_name,
                 current_pos, next_pos, nCmd, detected, result, runs,
                 initial_pos, min_pos, calib, error>>

\* The bus call run_arm_auto_calibration or calibrate_gripper makes next
\* (lines 63, 67, 81, 89, 111, 128, 132, 242, 246, 250).
NextAutoCall ==
  CASE pc = "a_entry" -> <<"write_torque_enable", TRUE>>
    [] pc = "a_led" -> <<"write_led", <<0, 0, 255>>>>
    [] pc = "a_initial" -> <<"read_present_position", motor_name>>
    [] pc = "s_ret" /\ dir = "min" -> <<"write_led", <<0, 255, 0>>>>
    [] pc = "s_ret" /\ dir = "max" ->
         <<"write_goal_position",
           [n \in {motor_name} |-> Entry(initial_pos, min_pos, result).center_pos]>>
    [] pc \in {"g_open", "g_close", "g_reopen"} -> <<"set_gripper", pc = "g_close">>
    [] pc = "a_centers" -> <<"write_goal_position", center_positions(calib)>>
    [] pc = "a_done" -> <<"write_led", <<0, 255, 0>>>>

\* A bus call of run_arm_auto_calibration or calibrate_gripper raises (at
\* a_entry: after the type check of line 54 passed).
AutoRaises ==
  /\ pc \in {"a_entry", "a_led", "a_initial", "s_ret",
              "g_open", "g_close", "g_reopen", "a_centers", "a_done"}
  /\ Raise(NextAutoCall)

AutoNext ==
  \/ \E robot_type \in RobotTypes : \E arm_type \in ArmTypes :
       AutoEnter(robot_type, arm_type)
  \/ AutoLed
  \/ AutoInitial
  \/ SearchBegin
  \/ SearchWrite
  \/ SearchRead
  \/ AutoAfterMin
  \/ AutoAfterMax
  \/ GripperStep
  \/ AutoCenters
  \/ AutoDone
  \/ SearchRaises
  \/ AutoRaises

\* ------------------------------------------------------------------------
\* run_arm_manual_calibration
\* ------------------------------------------------------------------------

\* What arm.read_present_position() may return: a reading of every motor.
BusReadAll ==
  LET names == {motor_names[i] : i \in 1..Len(motor_names)}
  IN IF sim = "any" THEN [names -> feedback] ELSE {pos}

\* Mutant of expected_direction: equal readings count as a positive rotation.
expected_direction_or_equal(rotated_pos, zero_pos) == rotated_pos - zero_pos >= 0

\* Line 317: expected_direction = rotated_pos - zero_pos > 0
expected_direction(rotated_pos, zero_pos) == rotated_pos - zero_pos > 0

\* Lines 319-324: the entry of a joint.
ManualEntry(zero_pos, rotated_pos) ==
  [zero_pos |-> zero_pos,
   rotated_pos |-> rotated_pos,
   offset |-> zero_pos,
   direction_inverted |-> ~expected_direction(rotated_pos, zero_pos)]

\* Mutant of HasGripper: the gripper is never found.
HasGripperNever == FALSE

\* "gripper" in motor_names (lines 115, 328).
HasGripper == \E i \in 1..Len(motor_names) : motor_names[i] = "gripper"

\* Mutant of HandMovedGripper: the gripper is driven through the bus.
BusMovedGripper(enable) == <<"set_gripper", enable>>

\* Lines 329-334: the operator opens and closes the gripper by hand; the
\* code prompts and waits, and makes no bus call.
HandMovedGripper(enable) == last_call

\* Lines 272-285: the type check, then write_torque_enable(False), calib = {}.
ManualEnter(robot_type, arm_type) ==
  /\ UNCHANGED <<busVars, ctlVars>>
  /\ pc = "m_entry"
  /\ call_types' = <<robot_type, arm_type>>
  /\ IF ~Supported(robot_type, arm_type)
       THEN /\ error' = "NotImplementedError"
            /\ pc' = "m_raised"
            /\ UNCHANGED <<last_call, calib>>
       ELSE /\ last_call' = <<"write_torque_enable", FALSE>>
            /\ calib' = <<>>
            /\ pc' = "m_zero_wait"
            /\ UNCHANGED error
  /\ UNCHANGED <<arm_motors, new_pos, confirmations, sim, feedback, stops, pos, dir, motor_name,
                 current_pos, next_pos, nCmd, detected, result, runs,
                 initial_pos, min_pos, zero_positions, rotated_positions>>

\* Lines 289 and 301: input() returns, the operator has posed the arm.
ManualConfirm ==
  /\ UNCHANGED <<busVars, ctlVars>>
  /\ pc \in {"m_zero_wait", "m_rot_wait"}
  /\ pc' = IF pc = "m_zero_wait" THEN "m_zero_read" ELSE "m_rot_read"
  /\ confirmations' = confirmations + 1
  /\ UNCHANGED <<arm_motors, call_types, new_pos, sim, feedback, stops, pos, dir, motor_name,
                 current_pos, next_pos, nCmd, detected, result, runs,
                 initial_pos, min_pos, calib, zero_positions,
                 rotated_positions, last_call, error>>

\* Line 292: zero_positions = arm.read_present_position()
ManualReadZero ==
  /\ UNCHANGED <<busVars, ctlVars>>
  /\ pc = "m_zero_read"
  /\ zero_positions' \in BusReadAll
  /\ last_call' = <<"read_present_position", None>>
  /\ pc' = "m_rot_wait"
  /\ UNCHANGED <<arm_motors, call_types, new_pos, confirmations, sim, feedback, stops, pos, dir, motor_name,
                 current_pos, next_pos, nCmd, detected, result, runs,
                 initial_pos, min_pos, calib, rotated_positions, error>>

\* Lines 304-325: rotated_positions = arm.read_present_position(), then the
\* entry of every motor that is not the gripper.
ManualReadRotated ==
  /\ UNCHANGED <<busVars, ctlVars>>
  /\ pc = "m_rot_read"
  /\ \E reading \in BusReadAll :
       /\ rotated_positions' = reading
       /\ calib' = [n \in Joints |-> ManualEntry(zero_positions[n], reading[n])]
  /\ last_call' = <<"read_present_position", None>>
  /\ pc' = IF HasGripper THEN "m_open_wait" ELSE "m_torque"
  /\ UNCHANGED <<arm_motors, call_types, new_pos, confirmations, sim, feedback, stops, pos, dir, motor_name,
                 current_pos, next_pos, nCmd, detected, result, runs,
                 initial_pos, min_pos, zero_positions, error>>

\* Lines 328-338: two prompts for the gripper, then its entry.
ManualGripper ==
  /\ UNCHANGED <<busVars, ctlVars>>
  /\ pc \in {"m_open_wait", "m_close_wait"}
  /\ last_call' = HandMovedGripper(pc = "m_close_wait")
  /\ IF pc = "m_open_wait"
       THEN /\ pc' = "m_close_wait"
            /\ UNCHANGED calib
       ELSE /\ calib' = [n \in DOMAIN calib \cup {"gripper"} |->
                           IF n = "gripper" THEN GripperEntry ELSE calib[n]]
            /\ pc' = "m_torque"
  /\ confirmations' = confirmations + 1
  /\ UNCHANGED <<arm_motors, call_types, new_pos, sim, feedback, stops, pos, dir, motor_name,
                 current_pos, next_pos, nCmd, detected, result, runs,
                 initial_pos, min_pos, zero_positions, rotated_positions, error>>

\* Line 342: write_torque_enable(True)
ManualTorqueOn ==
  /\ UNCHANGED <<busVars, ctlVars>>
  /\ pc = "m_torque"
  /\ last_call' = <<"write_torque_enable", TRUE>>
  /\ pc' = "m_led"
  /\ UNCHANGED <<arm_motors, call_types, new_pos, confirmations, sim, feedback, stops, pos, dir, motor_name,
                 current_pos, next_pos, nCmd, detected, result, runs,
                 initial_pos, min_pos, calib, zero_positions,
                 rotated_positions, error>>

\* Lines 345-348: write_led(green), return calib.
ManualDone ==
  /\ UNCHANGED <<busVars, ctlVars>>
  /\ pc = "m_led"
  /\ last_call' = <<"write_led", <<0, 255, 0>>>>
  /\ pc' = "m_return"
  /\ UNCHANGED <<arm_motors, call_types, new_pos, confirmations, sim, feedback, stops, pos, dir, motor_name,
                 current_pos, next_pos, nCmd, detected, result, runs,
                 initial_pos, min_pos, calib, zero_positions,
                 rotated_positions, error>>

ManualNext ==
  \/ \E robot_type \in RobotTypes : \E arm_type \in ArmTypes :
       ManualEnter(robot_type, arm_type)
  \/ ManualConfirm
  \/ ManualReadZero
  \/ ManualReadRotated
  \/ ManualGripper
  \/ ManualTorqueOn
  \/ ManualDone

\* ------------------------------------------------------------------------
\* Specifications
\* ------------------------------------------------------------------------

\* The calibration code is not running (specification Spec).
CalIdle ==
  /\ arm_motors = << <<"joint1", 1>> >>
  /\ sim = "stops"
  /\ feedback = {}
  /\ stops = <<0, 0>>
  /\ pos = [n \in {"joint1"} |-> 0]
  /\ pc = "idle"
  /\ dir = "min"
  /\ motor_name = "joint1"
  /\ current_pos = NoPos
  /\ next_pos = NoPos
  /\ new_pos = NoPos
  /\ confirmations = 0
  /\ call_types = NoTypes
  /\ nCmd = 0
  /\ detected = FALSE
  /\ result = NoPos
  /\ runs = 0
  /\ initial_pos = NoPos
  /\ min_pos = NoPos
  /\ calib = <<>>
  /\ zero_positions = <<>>
  /\ rotated_positions = <<>>
  /\ last_call = <<"none", None>>
  /\ error = None

\* No adapter call is recorded (specifications SpecSearch and SpecAuto).
BusIdle ==
  /\ self_motors = [b \in Buses |-> motors]
  /\ connected = [b \in Buses |-> TRUE]
  /\ mycobot = [b \in Buses |-> "MyCobot280"]
  /\ mock = [b \in Buses |-> FALSE]
  /\ MYCOBOT_AVAILABLE = TRUE
  /\ commanded = <<>>
  /\ op = [name |-> "__init__", bus |-> "busA", args |-> <<>>]
  /\ outcome = "ok"
  /\ ret = None
  /\ tcalls = <<>>

Init == BusInit /\ CalIdle /\ CtlIdle

Next == BusNext

Spec == Init /\ [][Next]_vars

\* No adapter is constructed yet (specification SpecConstruct).
ConstructInit ==
  /\ self_motors = [b \in Buses |-> NoObject]
  /\ connected = [b \in Buses |-> FALSE]
  /\ mycobot = [b \in Buses |-> None]
  /\ mock = [b \in Buses |-> FALSE]
  /\ MYCOBOT_AVAILABLE \in BOOLEAN
  /\ commanded = <<>>
  /\ op = [name |-> "none", bus |-> "busA", args |-> <<>>]
  /\ outcome = "ok"
  /\ ret = None
  /\ tcalls = <<>>
  /\ CalIdle
  /\ CtlIdle

SpecConstruct == ConstructInit /\ [][ConstructNext]_vars

\* Positions the simulated bus reports to a limit search: beyond, at and
\* just inside both target bounds of both limit pairs, and three positions
\* a quarter of a degree apart.
SearchFeedback ==
  { Deg(-200), Deg(-195), Deg(-190) - QuarterDeg, Deg(-190), Deg(-185),
    0, QuarterDeg, 2 * QuarterDeg,
    Deg(185), Deg(190), Deg(195), Deg(200) }

\* Stops of the simulated arm that starts at p: stuck at p, free over the
\* whole searched range, hard stops three steps either side of p, hard
\* stops at p and three steps below it, or hard stops inside the nominal
\* limits.
StopChoices(p) ==
  { <<p, p>>, <<Deg(-200), Deg(200)>>, <<p - Deg(15), p + Deg(15)>>,
    <<p - Deg(15), p>> }
    \cup (IF Deg(-185) <= p /\ p <= Deg(185) THEN {<<Deg(-185), Deg(185)>>} ELSE {})

\* The simulated bus and arm, before the calibration code runs.
SimInit(values, starts) ==
  /\ sim \in {"any", "stops"}
  /\ \E p \in starts :
       /\ pos = [i \in {arm_motors[i][1] : i \in 1..Len(arm_motors)} |-> p]
       /\ IF sim = "any"
            THEN /\ p = CHOOSE q \in starts : TRUE
                 /\ feedback = values
                 /\ stops = <<p, p>>
            ELSE /\ feedback = {}
                 /\ stops \in StopChoices(p)

SearchInit ==
  /\ BusIdle
  /\ CtlIdle
  /\ arm_motors \in {c \in ArmConfigs : \E i \in 1..Len(c) : c[i][1] # "gripper"}
  /\ SimInit(SearchFeedback, SearchFeedback)
  /\ pc = "idle"
  /\ dir = "min"
  /\ motor_name = arm_motors[1][1]
  /\ current_pos = NoPos
  /\ next_pos = NoPos
  /\ new_pos = NoPos
  /\ confirmations = 0
  /\ call_types = NoTypes
  /\ nCmd = 0
  /\ detected = FALSE
  /\ result = NoPos
  /\ runs = 0
  /\ initial_pos = NoPos
  /\ min_pos = NoPos
  /\ calib = <<>>
  /\ zero_positions = <<>>
  /\ rotated_positions = <<>>
  /\ last_call = <<"none", None>>
  /\ error = None

SpecSearch == SearchInit /\ [][SearchNext]_vars

\* Positions the simulated bus reports during an automatic calibration:
\* beyond both target bounds, and two positions a quarter of a degree apart.
AutoFeedback == {Deg(-200), 0, QuarterDeg, Deg(200)}

\* Positions a simulated arm with stops starts an automatic calibration at.
AutoStarts == {0, QuarterDeg, Deg(200)}

AutoInit ==
  /\ BusIdle
  /\ CtlIdle
  /\ arm_motors \in ArmConfigs
  /\ SimInit(AutoFeedback, AutoStarts)
  /\ pc = "a_entry"
  /\ dir = "min"
  /\ motor_name = arm_motors[1][1]
  /\ current_pos = NoPos
  /\ next_pos = NoPos
  /\ new_pos = NoPos
  /\ confirmations = 0
  /\ call_types = NoTypes
  /\ nCmd = 0
  /\ detected = FALSE
  /\ result = NoPos
  /\ runs = 0
  /\ initial_pos = NoPos
  /\ min_pos = NoPos
  /\ calib = <<>>
  /\ zero_positions = <<>>
  /\ rotated_positions = <<>>
  /\ last_call = <<"none", None>>
  /\ error = None

SpecAuto == AutoInit /\ [][AutoNext]_vars

\* Positions the bus reports during a manual calibration: the zero pose and
\* 85 degrees either side of it.
ManualFeedback == {Deg(-85), 0, Deg(85)}

\* Positions an arm nobody moves rests at during a manual calibration.
ManualStarts == {0, Deg(85)}

ManualInit ==
  /\ BusIdle
  /\ CtlIdle
  /\ arm_motors \in ArmConfigs
  /\ SimInit(ManualFeedback, ManualStarts)
  /\ pc = "m_entry"
  /\ dir = "min"
  /\ motor_name = arm_motors[1][1]
  /\ current_pos = NoPos
  /\ next_pos = NoPos
  /\ new_pos = NoPos
  /\ confirmations = 0
  /\ call_types = NoTypes
  /\ nCmd = 0
  /\ detected = FALSE
  /\ result = NoPos
  /\ runs = 0
  /\ initial_pos = NoPos
  /\ min_pos = NoPos
  /\ calib = <<>>
  /\ zero_positions = <<>>
  /\ rotated_positions = <<>>
  /\ last_call = <<"none", None>>
  /\ error = None

SpecManual == ManualInit /\ [][ManualNext]_vars

\* Either calibration procedure is run on the arm.
CalibrationInit == AutoInit \/ ManualInit

CalibrationNext == AutoNext \/ ManualNext

SpecCalibration == CalibrationInit /\ [][CalibrationNext]_vars

\* ========================================================================
\* Part C: the control modes of src/control_single_arm.py
\* (specifications SpecRecord and SpecCalibrateMode).
\*
\* record_episode, reset_environment, the dataset and the keyboard listener
\* are collaborators outside src/.  The listener runs in its own thread and
\* sets a flag of events at a key press, between any two statements of the
\* loop; the two control loops called may clear exit_early.
\* ========================================================================

\* The variables of the calibrate mode.
calibrateVars == <<cfg_arms, available_arms, calibration_files, is_connected,
                   robot_calls>>

\* The variables of the record loop.
recordVars == <<num_episodes, events, recorded_episodes, saved_episodes,
                episode_buffer, episodes_started, stopped_in_episode>>

\* The largest cfg.num_episodes explored.
MaxEpisodes == 2

\* The keys of events.
EventNames == {"stop_recording", "rerecord_episode", "exit_early"}

\* Line 229: a key press sets a flag of events; it is never the listener
\* that clears one.
Listener(flag) ==
  /\ UNCHANGED <<busVars, calVars, calibrateVars>>
  /\ ctl_pc \in {"r_head", "r_episode", "r_reset_test", "r_reset",
                 "r_rerecord_test", "r_clear_rerecord", "r_clear_exit",
                 "r_clear_buffer", "r_save", "r_count", "r_stop_test"}
  /\ events' = [events EXCEPT ![flag] = TRUE]
  /\ stopped_in_episode' =
       (stopped_in_episode \/ (flag = "stop_recording" /\ ctl_pc = "r_episode"))
  /\ UNCHANGED <<ctl_pc, ctl_error, num_episodes, recorded_episodes,
                 saved_episodes, episode_buffer, episodes_started>>

\* Line 244: the loop goes on while recorded_episodes < cfg.num_episodes.
KeepRecording(done, wanted) == ~(done >= wanted)

\* Lines 243-248: the head of the loop; break, or call record_episode.
RecordHead ==
  /\ UNCHANGED <<busVars, calVars, calibrateVars>>
  /\ ctl_pc = "r_head"
  /\ IF KeepRecording(recorded_episodes, num_episodes)
       THEN /\ ctl_pc' = "r_episode"
            /\ episodes_started' = Inc(episodes_started)
       ELSE /\ ctl_pc' = "r_stop"
            /\ UNCHANGED episodes_started
  /\ UNCHANGED <<ctl_error, num_episodes, events, recorded_episodes,
                 saved_episodes, episode_buffer, stopped_in_episode>>

\* Lines 248-257: record_episode returns; the frames of the episode are in
\* the buffer of the dataset.
RecordEpisode ==
  /\ UNCHANGED <<busVars, calVars, calibrateVars>>
  /\ ctl_pc = "r_episode"
  /\ ctl_pc' = "r_reset_test"
  /\ episode_buffer' = "frames"
  /\ \E early \in {events.exit_early, FALSE} :
       events' = [events EXCEPT !.exit_early = early]
  /\ UNCHANGED <<ctl_error, num_episodes, recorded_episodes, saved_episodes,
                 episodes_started, stopped_in_episode>>

\* Lines 261-263: whether the environment is reset after the episode.
ResetWanted ==
  /\ ~events.stop_recording
  /\ (recorded_episodes < num_episodes - 1) \/ events.rerecord_episode

\* Lines 261-264: the test before reset_environment.
ResetTest ==
  /\ UNCHANGED <<busVars, calVars, calibrateVars>>
  /\ ctl_pc = "r_reset_test"
  /\ ctl_pc' = IF ResetWanted THEN "r_reset" ELSE "r_rerecord_test"
  /\ UNCHANGED <<ctl_error, recordVars>>

\* Line 265: reset_environment returns.
ResetEnvironment ==
  /\ UNCHANGED <<busVars, calVars, calibrateVars>>
  /\ ctl_pc = "r_reset"
  /\ ctl_pc' = "r_rerecord_test"
  /\ \E early \in {events.exit_early, FALSE} :
       events' = [events EXCEPT !.exit_early = early]
  /\ UNCHANGED <<ctl_error, num_episodes, recorded_episodes, saved_episodes,
                 episode_buffer, episodes_started, stopped_in_episode>>

\* Mutant of Rerecord: the flag is ignored.
RerecordNever(ev) == FALSE

\* Line 267: the episode is to be recorded again.
Rerecord(ev) == ev.rerecord_episode

\* Line 267: the test of rerecord_episode.
RerecordTest ==
  /\ UNCHANGED <<busVars, calVars, calibrateVars>>
  /\ ctl_pc = "r_rerecord_test"
  /\ ctl_pc' = IF Rerecord(events) THEN "r_clear_rerecord" ELSE "r_save"
  /\ UNCHANGED <<ctl_error, recordVars>>

\* Line 269: events["rerecord_episode"] = False.
ClearRerecord ==
  /\ UNCHANGED <<busVars, calVars, calibrateVars>>
  /\ ctl_pc = "r_clear_rerecord"
  /\ ctl_pc' = "r_clear_exit"
  /\ events' = [events EXCEPT !.rerecord_episode = FALSE]
  /\ UNCHANGED <<ctl_error, num_episodes, recorded_episodes, saved_episodes,
                 episode_buffer, episodes_started, stopped_in_episode>>

\* Line 270: events["exit_early"] = False.
ClearExitEarly ==
  /\ UNCHANGED <<busVars, calVars, calibrateVars>>
  /\ ctl_pc = "r_clear_exit"
  /\ ctl_pc' = "r_clear_buffer"
  /\ events' = [events EXCEPT !.exit_early = FALSE]
  /\ UNCHANGED <<ctl_error, num_episodes, recorded_episodes, saved_episodes,
                 episode_buffer, episodes_started, stopped_in_episode>>

\* Lines 271-272: dataset.clear_episode_buffer(), continue.
ClearBuffer ==
  /\ UNCHANGED <<busVars, calVars, calibrateVars>>
  /\ ctl_pc = "r_clear_buffer"
  /\ ctl_pc' = "r_head"
  /\ episode_buffer' = "empty"
  /\ UNCHANGED <<ctl_error, num_episodes, events, recorded_episodes,
                 saved_episodes, episodes_started, stopped_in_episode>>

\* Line 274: dataset.save_episode() returns; the buffer went to the dataset.
SaveEpisode ==
  /\ UNCHANGED <<busVars, calVars, calibrateVars>>
  /\ ctl_pc = "r_save"
  /\ ctl_pc' = "r_count"
  /\ saved_episodes' = saved_episodes + 1
  /\ episode_buffer' = "empty"
  /\ UNCHANGED <<ctl_error, num_episodes, events, recorded_episodes,
                 episodes_started, stopped_in_episode>>

\* Line 275: recorded_episodes += 1.
CountEpisode ==
  /\ UNCHANGED <<busVars, calVars, calibrateVars>>
  /\ ctl_pc = "r_count"
  /\ ctl_pc' = "r_stop_test"
  /\ recorded_episodes' = recorded_episodes + 1
  /\ UNCHANGED <<ctl_error, num_episodes, events, saved_episodes,
                 episode_buffer, episodes_started, stopped_in_episode>>

\* Lines 277-278: break when stop_recording is set.
StopTest ==
  /\ UNCHANGED <<busVars, calVars, calibrateVars>>
  /\ ctl_pc = "r_stop_test"
  /\ ctl_pc' = IF events.stop_recording THEN "r_stop" ELSE "r_head"
  /\ UNCHANGED <<ctl_error, recordVars>>

\* Lines 280-281: stop_recording(robot, listener, ...) ends the listener.
StopRecording ==
  /\ UNCHANGED <<busVars, calVars, calibrateVars>>
  /\ ctl_pc = "r_stop"
  /\ ctl_pc' = "r_done"
  /\ UNCHANGED <<ctl_error, recordVars>>

\* Lines 248, 265, 271, 274: a call of a collaborator raises; record has no
\* handler, the exception leaves the function.
RecordRaises ==
  /\ UNCHANGED <<busVars, calVars, calibrateVars>>
  /\ ctl_pc \in {"r_episode", "r_reset", "r_clear_buffer", "r_save"}
  /\ ctl_pc' = "r_raised"
  /\ ctl_error' = "CollaboratorError"
  /\ UNCHANGED recordVars

RecordNext ==
  \/ \E flag \in EventNames : Listener(flag)
  \/ RecordHead
  \/ RecordEpisode
  \/ ResetTest
  \/ ResetEnvironment
  \/ RerecordTest
  \/ ClearRerecord
  \/ ClearExitEarly
  \/ ClearBuffer
  \/ SaveEpisode
  \/ CountEpisode
  \/ StopTest
  \/ StopRecording
  \/ RecordRaises

\* Line 242: recorded_episodes = 0 on a new buffer; the warm-up is over and
\* may have left any flag of events set.
RecordInit ==
  /\ BusIdle
  /\ CalIdle
  /\ ctl_pc = "r_head"
  /\ cfg_arms = [is_none |-> TRUE, list |-> <<>>]
  /\ available_arms = <<>>
  /\ calibration_files = {}
  /\ is_connected = TRUE
  /\ robot_calls = <<>>
  /\ ctl_error = None
  /\ num_episodes \in 0..MaxEpisodes
  /\ events \in [EventNames -> BOOLEAN]
  /\ recorded_episodes = 0
  /\ saved_episodes = 0
  /\ episode_buffer = "empty"
  /\ episodes_started = 0
  /\ stopped_in_episode = FALSE

SpecRecord == RecordInit /\ [][RecordNext]_vars

\* ------------------------------------------------------------------------
\* calibrate
\* ------------------------------------------------------------------------

\* The arm ids a caller may pass; "ghost" is no arm of any robot.
ArmIdLists ==
  {<<>>, <<"main">>, <<"spare">>, <<"ghost">>, <<"main", "spare">>,
   <<"main", "ghost">>, <<"main", "main">>}

\* The robots: their available_arms.
AvailableArmLists == {<<>>, <<"main">>, <<"main", "spare">>}

\* The elements of a list.
Elements(list) == {list[i] : i \in 1..Len(list)}

\* Line 156: arms = robot.available_arms if cfg.arms is None else cfg.arms.
arms == IF cfg_arms.is_none THEN available_arms ELSE cfg_arms.list

\* Mutant of unknown_arms: every arm id passes.
unknown_arms_none(list, available) == <<>>

\* Line 157: the arm ids not in robot.available_arms.
unknown_arms(list, available) ==
  SelectSeq(list, LAMBDA arm_id : arm_id \notin Elements(available))

\* Lines 172-178: the files unlinked, in the order of the list; a file
\* unlinked once no longer exists when its arm id comes again.
RECURSIVE Removals(_, _)
Removals(list, files) ==
  IF list = <<>> THEN <<>>
  ELSE IF Head(list) \in files
    THEN <<<<"unlink", Head(list)>>>> \o Removals(Tail(list), files \ {Head(list)})
    ELSE Removals(Tail(list), files)

\* Lines 156-170: the validation of the arm list.
CalibrateValidate ==
  /\ UNCHANGED <<busVars, calVars, recordVars>>
  /\ ctl_pc = "c_entry"
  /\ IF Len(arms) = 0 \/ Len(unknown_arms(arms, available_arms)) > 0
       THEN /\ ctl_pc' = "c_raised"
            /\ ctl_error' = "ValueError"
       ELSE /\ ctl_pc' = "c_remove"
            /\ UNCHANGED ctl_error
  /\ UNCHANGED calibrateVars

\* Lines 172-180: the calibration files of the arms are removed, then
\* robot.is_connected is tested.
CalibrateRemove ==
  /\ UNCHANGED <<busVars, calVars, recordVars>>
  /\ ctl_pc = "c_remove"
  /\ robot_calls' = robot_calls \o Removals(arms, calibration_files)
  /\ calibration_files' = calibration_files \ Elements(arms)
  /\ ctl_pc' = IF is_connected THEN "c_disconnect" ELSE "c_connect"
  /\ UNCHANGED <<cfg_arms, available_arms, is_connected, ctl_error>>

\* Line 181: robot.disconnect() of a connected robot.
CalibrateDisconnectFirst ==
  /\ UNCHANGED <<busVars, calVars, recordVars>>
  /\ ctl_pc = "c_disconnect"
  /\ robot_calls' = Append(robot_calls, <<"disconnect", "robot">>)
  /\ is_connected' = FALSE
  /\ ctl_pc' = "c_connect"
  /\ UNCHANGED <<cfg_arms, available_arms, calibration_files, ctl_error>>

\* Line 184: robot.connect() runs the calibration of the arms whose file is
\* missing and writes their files.
CalibrateConnect ==
  /\ UNCHANGED <<busVars, calVars, recordVars>>
  /\ ctl_pc = "c_connect"
  /\ robot_calls' = Append(robot_calls, <<"connect", "robot">>)
  /\ is_connected' = TRUE
  /\ calibration_files' = calibration_files \cup Elements(available_arms)
  /\ ctl_pc' = "c_final"
  /\ UNCHANGED <<cfg_arms, available_arms, ctl_error>>

\* Line 185: robot.disconnect().
CalibrateDisconnect ==
  /\ UNCHANGED <<busVars, calVars, recordVars>>
  /\ ctl_pc = "c_final"
  /\ robot_calls' = Append(robot_calls, <<"disconnect", "robot">>)
  /\ is_connected' = FALSE
  /\ ctl_pc' = "c_done"
  /\ UNCHANGED <<cfg_arms, available_arms, calibration_files, ctl_error>>

\* Lines 181, 184, 185: a call of the robot raises (a calibration that
\* fails raises out of connect); calibrate has no handler.  What the robot
\* is left with is the robot's affair: connected or not, files written or
\* not.
CalibrateRaises ==
  /\ UNCHANGED <<busVars, calVars, recordVars>>
  /\ ctl_pc \in {"c_disconnect", "c_connect", "c_final"}
  /\ robot_calls' =
       Append(robot_calls,
              <<IF ctl_pc = "c_connect" THEN "connect" ELSE "disconnect", "robot">>)
  /\ is_connected' \in BOOLEAN
  /\ \E written \in SUBSET Elements(available_arms) :
       calibration_files' =
         calibration_files \cup (IF ctl_pc = "c_connect" THEN written ELSE {})
  /\ ctl_pc' = "c_raised"
  /\ ctl_error' = "RobotError"
  /\ UNCHANGED <<cfg_arms, available_arms>>

CalibrateNext ==
  \/ CalibrateValidate
  \/ CalibrateRemove
  \/ CalibrateDisconnectFirst
  \/ CalibrateConnect
  \/ CalibrateDisconnect
  \/ CalibrateRaises

\* calibrate is called with any arm list on any robot.
CalibrateInit ==
  /\ BusIdle
  /\ CalIdle
  /\ ctl_pc = "c_entry"
  /\ cfg_arms \in {[is_none |-> TRUE, list |-> <<>>]} \cup
                  {[is_none |-> FALSE, list |-> l] : l \in ArmIdLists}
  /\ available_arms \in AvailableArmLists
  /\ calibration_files \in SUBSET Elements(available_arms)
  /\ is_connected \in BOOLEAN
  /\ robot_calls = <<>>
  /\ ctl_error = None
  /\ num_episodes = 0
  /\ events = [n \in EventNames |-> FALSE]
  /\ recorded_episodes = 0
  /\ saved_episodes = 0
  /\ episode_buffer = "empty"
  /\ episodes_started = 0
  /\ stopped_in_episode = FALSE

SpecCalibrateMode == CalibrateInit /\ [][CalibrateNext]_vars

\* ------------------------------------------------------------------------
\* Properties of the adapter (checked under Spec)
\* ------------------------------------------------------------------------

\* The adapter state of all buses and of the arm.
adapterState == <<connected, mycobot, mock, commanded>>

\* C1: connect() on a bus whose session is already open fails with
\* AlreadyConnected, makes no transport call (opens no second transport) and
\* leaves the connected flag and the transport handle of every bus unchanged.
C1_ConnectWhileOpenFails ==
  [][(op'.name = "connect" /\ connected[op'.bus])
       => /\ outcome' = "AlreadyConnected"
          /\ tcalls' = <<>>
          /\ connected'[op'.bus]
          /\ UNCHANGED adapterState]_vars

\* C1 witness: a second connect() on a non-mock bus holding a transport failed.
C1_Witness ==
  /\ op.name = "connect" /\ outcome = "AlreadyConnected"
  /\ ~mock[op.bus] /\ connected[op.bus] /\ mycobot[op.bus] = "MyCobot280"

\* The calls that require an open session.
GuardedOps == {"disconnect", "read_present_position", "read_present_velocity",
               "read_present_current", "write_goal_position",
               "write_torque_enable", "write_led", "set_gripper"}

\* C2: with no session open, every guarded call fails with NotConnected, makes
\* no transport call and changes no adapter state, in mock and non-mock mode.
C2_ClosedBusRejectsCalls ==
  [][(op'.name \in GuardedOps /\ ~connected[op'.bus])
       => /\ outcome' = "NotConnected"
          /\ tcalls' = <<>>
          /\ UNCHANGED adapterState]_vars

\* C2 witness: a write on a mock bus with no open session was rejected, while
\* a non-mock bus has no open session either.
C2_Witness ==
  /\ op.name = "write_goal_position" /\ outcome = "NotConnected"
  /\ mock[op.bus] /\ ~connected[op.bus]
  /\ \E b \in Buses : ~mock[b] /\ ~connected[b]

\* C3: after disconnect() on an open session returned or raised, the bus is
\* closed (connected flag false), even when power_off() failed.
C3_DisconnectAlwaysCloses ==
  (op.name = "disconnect" /\ outcome # "NotConnected") => ~connected[op.bus]

\* Motors a positions dict does not address.
Unaddressed(positions) == MotorNames \ DOMAIN positions

\* The angle list a successful write_goal_position call sent.
SentBy(calls) == calls[2].args[1]

\* C4: a write that addresses only some joints sends, for every un-addressed
\* joint, the value last commanded for that joint.
C4_UnaddressedKeepCommanded ==
  [][(op'.name = "write_goal_position" /\ outcome' = "ok" /\ ~mock[op'.bus]
      /\ commanded # <<>> /\ DOMAIN op'.args[1] # {})
       => \A n \in Unaddressed(op'.args[1]) :
            Item(SentBy(tcalls'), motors[n] - 1) = Item(commanded, motors[n] - 1)]_vars

\* The value position k (0-based) of the list sent must hold, given the list read.
Expected(positions, read, k) ==
  IF \E n \in DOMAIN positions : motors[n] - 1 = k
    THEN positions[CHOOSE n \in DOMAIN positions : motors[n] - 1 = k]
    ELSE Item(read, k)

\* A write_goal_position call got past the guard on a non-mock bus.
WriteReachedTransport ==
  op.name = "write_goal_position" /\ outcome # "NotConnected" /\ ~mock[op.bus]

\* One read, then one send at 50% of the list read with the addressed
\* entries replaced.
ReadThenSend ==
  /\ Len(tcalls) = 2
  /\ tcalls[1].fn = "get_angles" /\ ~tcalls[1].raised
  /\ tcalls[2].fn = "send_angles"
  /\ tcalls[2].args[2] = 50
  /\ Len(tcalls[2].args[1]) = Len(tcalls[1].res)
  /\ \A k \in 0..(Len(tcalls[1].res) - 1) :
       Item(tcalls[2].args[1], k) = Expected(op.args[1], tcalls[1].res, k)

\* C5 as stated: every write on a connected non-mock bus makes exactly one
\* read and exactly one send.
C5_AlwaysReadAndSend == WriteReachedTransport => ReadThenSend

\* C5 as amended: every write on a connected non-mock bus makes exactly one
\* read and, unless that read raises, exactly one send at 50% speed of the
\* list read with the addressed entries replaced; when the read raises
\* nothing is sent.
C5_ReadThenSendUnlessReadFails ==
  WriteReachedTransport =>
    /\ Len(tcalls) >= 1
    /\ tcalls[1].fn = "get_angles"
    /\ IF tcalls[1].raised THEN Len(tcalls) = 1 ELSE ReadThenSend

\* C5 witness: a write addressing j1 alone was sent; the list read held 10
\* for both joints and the list sent holds the requested 0 for j1 and the
\* 10 read for j2.
C5_Witness ==
  /\ WriteReachedTransport /\ outcome = "ok"
  /\ DOMAIN op.args[1] = {"j1"} /\ op.args[1]["j1"] = 0
  /\ Item(tcalls[1].res, 0) = 10 /\ Item(tcalls[1].res, 1) = 10
  /\ Item(SentBy(tcalls), 0) = 0 /\ Item(SentBy(tcalls), 1) = 10

\* C6: at most one bus holds an open session on the port (all buses of the
\* model are constructed for the same port).
C6_OneSessionPerPort == Cardinality({b \in Buses : connected[b]}) <= 1

\* ------------------------------------------------------------------------
\* Properties of automatic calibration (checked under SpecAuto)
\* ------------------------------------------------------------------------

\* C7: in the record a completed automatic calibration returns, every
\* non-gripper joint has min_pos <= max_pos and min_pos <= center_pos <= max_pos,
\* whatever the bus reported during the run.
C7_MinCenterMaxOrdered ==
  pc = "a_return" =>
    \A n \in DOMAIN calib \ {"gripper"} :
      /\ calib[n].min_pos <= calib[n].max_pos
      /\ calib[n].min_pos <= calib[n].center_pos
      /\ calib[n].center_pos <= calib[n].max_pos

\* ------------------------------------------------------------------------
\* Properties of limit search (checked under SpecSearch)
\* ------------------------------------------------------------------------

\* The target bound of the search in progress, as the specification words
\* it: nominal minimum - 20 toward minimum, nominal maximum + 20 toward maximum.
Bound ==
  IF dir = "min" THEN JOINT_LIMITS(JointNumber(motor_name))[1] - Deg(20)
                 ELSE JOINT_LIMITS(JointNumber(motor_name))[2] + Deg(20)

\* A limit search is running or has returned.
InSearch == pc \in {"s_begin", "s_write", "s_read", "s_ret"}

\* The simulated arm is stuck: the bus reports one fixed position.
Stuck == sim = "stops" /\ stops[1] = stops[2]

\* The simulated arm follows every command of a search exactly.
Free == sim = "stops" /\ stops = <<Deg(-200), Deg(200)>>

\* Position p lies strictly inside the target bound of the search in progress.
StrictlyInside(p) == IF dir = "min" THEN p > Bound ELSE p < Bound

\* C8: on a bus that reports a fixed position strictly inside the target
\* bound, a limit search in either direction issues exactly one motion
\* command, detects convergence on its first check and returns the fixed
\* position; so does every later run.
C8_StuckBusOneCheck ==
  (InSearch /\ Stuck /\ StrictlyInside(stops[1])) =>
    /\ nCmd <= 1
    /\ pc = "s_ret" => (nCmd = 1 /\ detected /\ result = stops[1])

\* C8 witness: the second run on a stuck bus, toward maximum, has returned.
C8_Witness ==
  /\ Stuck /\ StrictlyInside(stops[1])
  /\ pc = "s_ret" /\ runs = 2 /\ dir = "max"
  /\ result = stops[1] /\ nCmd = 1

\* C9: on a bus whose position follows every command exactly, a limit search
\* that commands at all keeps stepping while it is short of the target
\* bound, detects convergence at the earliest on the clamped step that
\* reaches the bound, ends with the command to the bound and returns the bound.
C9_FollowingBusReachesBound ==
  (InSearch /\ Free /\ nCmd >= 1) =>
    /\ pc = "s_write" => (current_pos = next_pos /\ StrictlyInside(current_pos))
    /\ pc = "s_read" => pos[motor_name] = next_pos
    /\ pc = "s_ret" => (result = Bound /\ next_pos = Bound)
    /\ detected => (pc = "s_ret" /\ result = Bound)

\* C9 witness: a search of the following bus that started a quarter degree
\* off the 5 degree grid returned the bound after its clamped last step.
C9_Witness ==
  /\ Free /\ pc = "s_ret" /\ nCmd = MaxCount
  /\ result = Bound /\ detected /\ dir = "min"

ManualEntriesDone ==
  pc \in {"m_open_wait", "m_close_wait", "m_torque", "m_led", "m_return"}

\* C11: manual calibration records, for every motor that is not the gripper,
\* offset = the reading at the zero pose and direction_inverted = not
\* (rotated reading - zero reading > 0): zero 0 with rotated +85 gives FALSE,
\* rotated -85 gives TRUE, and equal readings are flagged inverted.
C11_ManualOffsetAndDirection ==
  ManualEntriesDone =>
    /\ DOMAIN calib \ {"gripper"} = Joints
    /\ \A n \in Joints :
         LET zero == zero_positions[n]
             rotated == rotated_positions[n]
         IN /\ calib[n].offset = zero
            /\ calib[n].direction_inverted = ~(rotated - zero > 0)
            /\ (zero = 0 /\ rotated = Deg(85)) => calib[n].direction_inverted = FALSE
            /\ (zero = 0 /\ rotated = Deg(-85)) => calib[n].direction_inverted = TRUE
            /\ rotated = zero => calib[n].direction_inverted = TRUE

\* C11 witness: a returned record in which joint1 (zero 0, rotated +85) is
\* not inverted and joint6 (both readings +85) is flagged inverted.
C11_Witness ==
  /\ pc = "m_return"
  /\ DOMAIN calib = {"joint1", "joint6"}
  /\ zero_positions["joint1"] = 0 /\ rotated_positions["joint1"] = Deg(85)
  /\ ~calib["joint1"].direction_inverted
  /\ zero_positions["joint6"] = Deg(85) /\ rotated_positions["joint6"] = Deg(85)
  /\ calib["joint6"].direction_inverted /\ calib["joint6"].offset = Deg(85)

\* ------------------------------------------------------------------------
\* Properties of both calibration procedures (checked under SpecCalibration)
\* ------------------------------------------------------------------------

\* A calibration procedure has returned its record.
Returned == pc \in {"a_return", "m_return"}

\* C12: the record automatic or manual calibration returns has a gripper
\* entry exactly when a motor named gripper is configured, and that entry
\* holds the calibrated marker, TRUE, and no other key (no min_pos, max_pos
\* or offset).
C12_GripperEntryOnlyMarker ==
  Returned =>
    /\ ("gripper" \in DOMAIN calib) <=>
         (\E i \in 1..Len(arm_motors) : arm_motors[i][1] = "gripper")
    /\ "gripper" \in DOMAIN calib =>
         /\ DOMAIN calib["gripper"] = {"calibrated"}
         /\ calib["gripper"].calibrated = TRUE

\* C12 witness: automatic calibration of an arm with a joint and a gripper
\* returned a record holding both entries.
C12_Witness ==
  /\ pc = "a_return"
  /\ DOMAIN calib = {"gripper", "joint1"}
  /\ last_call = <<"write_led", <<0, 255, 0>>>>

\* ------------------------------------------------------------------------
\* Properties of manual calibration, continued (checked under SpecManual)
\* ------------------------------------------------------------------------

\* The bus calls manual calibration may make.
ManualBusOps == {"write_torque_enable", "read_present_position", "write_led"}

\* C13: between entry and return manual calibration issues no motion
\* command: every bus call it makes is write_torque_enable,
\* read_present_position or write_led, never write_goal_position or
\* set_gripper, and the simulated arm is not moved by the code.
C13_ManualIssuesNoMotion ==
  [][/\ last_call'[1] \in ManualBusOps \cup {"none"}
     /\ pos' = pos]_vars

\* C13 witness: manual calibration of an arm with a joint and a gripper has
\* returned; its last bus call was write_led.
C13_Witness ==
  /\ pc = "m_return"
  /\ DOMAIN calib = {"gripper", "joint1"}
  /\ last_call[1] = "write_led"

\* ------------------------------------------------------------------------
\* Properties of automatic calibration, continued (checked under SpecAuto)
\* ------------------------------------------------------------------------

\* C14: when a bus call raises during automatic calibration the error
\* reaches the caller: from then on no bus call is issued (no motion, torque,
\* indicator or gripper call, no return-to-center move), the record gains no
\* entry and is never returned.
C14_BusErrorEndsCalibration ==
  [][/\ error # None =>
          /\ last_call' = last_call
          /\ calib' = calib
          /\ pos' = pos
          /\ error' = error
     /\ error' # None => pc' # "a_return"]_vars

\* C14 witness: a read of the second joint raised; the first joint stays
\* the only one in the record.
C14_Witness ==
  /\ error = "TransportError"
  /\ DOMAIN calib = {"joint1"}
  /\ motor_name = "joint6"
  /\ last_call = <<"read_present_position", "joint6">>

\* ------------------------------------------------------------------------
\* Properties of the constructor (checked under SpecConstruct)
\* ------------------------------------------------------------------------

\* The motor ids the bus supports, as the specification words them.
SupportedIds == 1..6

\* C15: constructing an adapter with a motor id outside 1..6 fails in the
\* constructor with ValueError and yields no object; so every adapter object
\* that exists, and every one connect() or another method is called on, has
\* all its motor ids within 1..6.
C15_OutOfRangeIdNeverConstructed ==
  /\ (op.name = "__init__" /\ \E n \in DOMAIN op.args[1] : op.args[1][n] \notin SupportedIds)
       => (outcome = "ValueError" /\ ~Constructed(op.bus))
  /\ \A b \in Buses : \A n \in DOMAIN self_motors[b] : self_motors[b][n] \in SupportedIds
  /\ op.name \notin {"none", "__init__"} =>
       /\ Constructed(op.bus)
       /\ \A n \in DOMAIN self_motors[op.bus] : self_motors[op.bus][n] \in SupportedIds

\* C15 witness: a construction with ids 1 and 7 raised ValueError and left
\* the caller without an object, while the other bus, constructed with ids
\* 1 and 6, is connected.
C15_Witness ==
  /\ op.name = "__init__" /\ outcome = "ValueError"
  /\ op.args[1]["j1"] = 1 /\ op.args[1]["j2"] = 7
  /\ ~Constructed(op.bus)
  /\ \E b \in Buses : /\ Constructed(b) /\ connected[b]
                      /\ self_motors[b]["j1"] = 1 /\ self_motors[b]["j2"] = 6

\* ------------------------------------------------------------------------
\* Properties of the adapter, continued (checked under Spec)
\* ------------------------------------------------------------------------

\* C16: after connect() failed because opening the transport or power_on()
\* raised, the bus is not connected and holds no transport: it never keeps an
\* opened transport while reporting itself closed.
C16_FailedConnectHoldsNoTransport ==
  (op.name = "connect" /\ outcome = "TransportError") =>
    (~connected[op.bus] /\ mycobot[op.bus] = None)

\* The calls that talk to the transport of an open session.
TransportOps == {"read_present_position", "write_goal_position",
                 "write_torque_enable", "write_led", "set_gripper"}

\* C17: when a transport call raises inside read_present_position,
\* write_goal_position, write_torque_enable, write_led or set_gripper on a
\* connected bus, the call ends with the transport's error, makes no further
\* transport call, and leaves the connected flag, the transport handle and
\* the motor table of every bus as they were.
C17_TransportErrorKeepsState ==
  [][(/\ op'.name \in TransportOps
      /\ connected[op'.bus]
      /\ \E i \in 1..Len(tcalls') : tcalls'[i].raised)
       => /\ outcome' = "TransportError"
          /\ tcalls'[Len(tcalls')].raised
          /\ \A i \in 1..(Len(tcalls') - 1) : ~tcalls'[i].raised
          /\ UNCHANGED <<connected, mycobot, mock, self_motors>>]_vars

\* C17 witness: send_angles raised inside write_goal_position after the read
\* succeeded; the bus is still connected and holds its transport.
C17_Witness ==
  /\ op.name = "write_goal_position" /\ outcome = "TransportError"
  /\ Len(tcalls) = 2 /\ tcalls[2].fn = "send_angles" /\ tcalls[2].raised
  /\ connected[op.bus] /\ mycobot[op.bus] = "MyCobot280"

\* C18: read_present_position on a connected non-mock bus returns, for every
\* requested list of configured motors, the empty list included, a result
\* whose keys are exactly the requested motors and whose value for the motor
\* with id k is element k - 1 of the angle list of one get_angles() call.
C18_ReadReturnsRequestedMotors ==
  (/\ op.name = "read_present_position" /\ outcome = "ok"
   /\ ~mock[op.bus] /\ op.args[1] # NoNames)
    => /\ Len(tcalls) = 1 /\ tcalls[1].fn = "get_angles"
       /\ DOMAIN ret = op.args[1]
       /\ \A n \in DOMAIN ret : ret[n] = Item(tcalls[1].res, motors[n] - 1)

\* C19: read_present_velocity and read_present_current on a connected bus
\* make no transport call and return 0 for every requested motor and an
\* entry for no other motor (every motor when no list is passed).
C19_ZeroForRequestedMotorsOnly ==
  (op.name \in {"read_present_velocity", "read_present_current"} /\ outcome = "ok")
    => /\ tcalls = <<>>
       /\ DOMAIN ret = IF op.args[1] = NoNames THEN MotorNames ELSE op.args[1]
       /\ \A n \in DOMAIN ret : ret[n] = 0

\* ------------------------------------------------------------------------
\* End-to-end scenario of automatic calibration (checked under SpecAuto)
\* ------------------------------------------------------------------------

\* The arm has two joints of nominal limits (-170, 170) and no gripper, and
\* its simulated bus stops following after exactly three steps of 5 degrees
\* in each direction: the stops lie 15 degrees apart within the nominal
\* limits, and every joint starts at the upper one.
ThreeStepScenario ==
  /\ arm_motors = << <<"joint1", 1>>, <<"joint2", 2>> >>
  /\ \A i \in 1..Len(arm_motors) : JOINT_LIMITS(arm_motors[i][2]) = <<Deg(-170), Deg(170)>>
  /\ sim = "stops"
  /\ stops[2] - stops[1] = 3 * step_size
  /\ Deg(-170) <= stops[1] /\ stops[2] <= Deg(170)

\* C20: in that scenario a completed automatic calibration yields a record
\* of exactly two entries, each with range > 0 (the 15 degrees between the
\* stops), and its last motion command is one write_goal_position call that
\* carries the computed centers of both joints.
C20_TwoJointScenario ==
  (ThreeStepScenario /\ pc \in {"a_done", "a_return"}) =>
    LET center == (stops[1] + stops[2]) \div 2
    IN /\ DOMAIN calib = {"joint1", "joint2"}
       /\ \A n \in DOMAIN calib :
            /\ calib[n].range > 0
            /\ calib[n].min_pos = stops[1] /\ calib[n].max_pos = stops[2]
            /\ calib[n].center_pos = center
       /\ pc = "a_done" =>
            last_call = <<"write_goal_position", [n \in {"joint1", "joint2"} |-> center]>>
       /\ \A n \in {"joint1", "joint2"} : pos[n] = center

\* C20 witness: the scenario, started a quarter of a degree above 0, has
\* returned its record after the completion indicator.
C20_Witness ==
  /\ ThreeStepScenario /\ pc = "a_return"
  /\ stops[2] = QuarterDeg
  /\ calib["joint2"].range = Deg(15)
  /\ last_call = <<"write_led", <<0, 255, 0>>>>

\* ------------------------------------------------------------------------
\* Properties of limit search, continued (checked under SpecSearch)
\* ------------------------------------------------------------------------

\* C21: every position a limit search commands lies between the position
\* last read and the target bound: toward the bound, at most 5 degrees from
\* the position last read, and never beyond the bound (nominal minimum - 20
\* toward minimum, nominal maximum + 20 toward maximum), whatever the bus
\* reports.
C21_CommandBetweenReadAndBound ==
  [][(pc = "s_write" /\ last_call'[1] = "write_goal_position")
       => LET commanded_pos == last_call'[2][motor_name]
          IN /\ DOMAIN last_call'[2] = {motor_name}
             /\ Abs(commanded_pos - current_pos) <= Deg(5)
             /\ IF dir = "min"
                  THEN Bound <= commanded_pos /\ commanded_pos < current_pos
                  ELSE current_pos < commanded_pos /\ commanded_pos <= Bound]_vars

\* C21 witness: a search toward minimum read a position less than one step
\* inside the bound and commanded the bound itself.
C21_Witness ==
  /\ pc = "s_read" /\ dir = "min" /\ error = None
  /\ last_call[1] = "write_goal_position"
  /\ last_call[2][motor_name] = Bound
  /\ current_pos - Bound < Deg(5) /\ current_pos > Bound

\* A limit search keeps running: each of its steps is taken once it is the
\* next statement (the calibration thread is never suspended).  No fairness
\* is assumed of the bus: it may raise or not, and report any position.
SearchFairness ==
  /\ WF_vars(SearchBegin)
  /\ WF_vars(SearchWrite)
  /\ WF_vars(SearchRead)

SpecSearchFair == SearchInit /\ [][SearchNext]_vars /\ SearchFairness

\* C22: a limit search, once started, always terminates: whatever positions
\* the bus reports, it returns a limit or a bus error propagates.
C22_SearchTerminates ==
  (pc = "s_begin") ~> (pc \in {"s_ret", RaisedPc})

\* Position p lies beyond the target bound of the search in progress.
Beyond(p) == IF dir = "min" THEN p < Bound ELSE p > Bound

\* C23: when the first position a limit search reads already lies beyond
\* the target bound in the search direction, the search returns that
\* position at once and issues no motion command.
C23_FirstReadBeyondBoundReturns ==
  [][(pc = "s_begin" /\ error' = None /\ Beyond(current_pos'))
       => /\ pc' = "s_ret"
          /\ result' = current_pos'
          /\ nCmd' = 0
          /\ last_call' = <<"read_present_position", motor_name>>
          /\ pos' = pos]_vars

\* C23 witness: a search toward maximum whose first read was 200 degrees
\* returned 200 degrees without a motion command.
C23_Witness ==
  /\ pc = "s_ret" /\ dir = "max" /\ nCmd = 0 /\ ~detected
  /\ current_pos = Deg(200) /\ result = Deg(200)
  /\ last_call[1] = "read_present_position"

\* C24: a limit search returns on convergence exactly when the position it
\* re-reads after a command differs from the previous read by less than
\* 0.5 degrees, and it then returns the position just read (not the
\* commanded position, not the previous read); otherwise the position just
\* read becomes the current position.
C24_ConvergenceReturnsLastRead ==
  [][(pc = "s_read" /\ error' = None)
       => /\ new_pos' \in BusRead(motor_name)
          /\ detected' <=> (2 * Abs(new_pos' - current_pos) < Deg(1))
          /\ detected' => (pc' = "s_ret" /\ result' = new_pos')
          /\ ~detected' => current_pos' = new_pos']_vars

\* C24 witness: a search read 0, commanded a step, read a quarter of a
\* degree and returned the quarter of a degree, which is neither the
\* previous read nor the commanded position.
C24_Witness ==
  /\ pc = "s_ret" /\ detected
  /\ current_pos = 0 /\ new_pos = QuarterDeg /\ result = QuarterDeg
  /\ next_pos # result /\ last_call[1] = "read_present_position"

\* ------------------------------------------------------------------------
\* Order of the bus calls of automatic calibration (checked under SpecAuto)
\* ------------------------------------------------------------------------

\* The configured motors that are not the gripper, in configuration order.
JointsInOrder == SelectSeq(motor_names, LAMBDA n : n # "gripper")

\* The code is busy with one joint: about to read its initial position, or
\* in one of its two limit searches.
JointPhase == {"a_initial", "s_begin", "s_write", "s_read", "s_ret"}

\* C25: in an automatic calibration the first bus call is torque enable and
\* the second the in-progress (blue) indicator, so both precede every motion
\* command; the joints are handled one at a time in configuration order;
\* for each joint the search toward minimum returns before the search
\* toward maximum starts, which returns before the joint's entry is stored
\* and the joint is commanded to its center, and only then is the next
\* joint read or commanded.
C25_AutoCallOrder ==
  [][LET done == DOMAIN calib' \ {"gripper"}
         k == Cardinality(done)
     IN /\ last_call[1] = "none" => last_call'[1] \in {"none", "write_torque_enable"}
        /\ last_call[1] = "write_torque_enable" =>
             \/ last_call'[1] = "write_torque_enable"
             \/ last_call'[1] = "write_led" /\ last_call'[2] = <<0, 0, 255>>
        /\ last_call'[1] \in {"write_goal_position", "set_gripper"} =>
             last_call[1] \notin {"none", "write_torque_enable"}
        /\ done = {JointsInOrder[i] : i \in 1..k}
        /\ pc' \in JointPhase =>
             (k < Len(JointsInOrder) /\ motor_name' = JointsInOrder[k + 1])
        /\ last_call'[1] = "read_present_position" =>
             (k < Len(JointsInOrder) /\ last_call'[2] = JointsInOrder[k + 1])
        /\ (pc \in JointPhase /\ pc' # pc /\ last_call'[1] = "write_goal_position") =>
             \E n \in DOMAIN last_call'[2] :
               /\ DOMAIN last_call'[2] = {n}
               /\ \/ k < Len(JointsInOrder) /\ n = JointsInOrder[k + 1]
                  \/ k >= 1 /\ n = JointsInOrder[k]
        /\ (pc' \in JointPhase /\ dir' = "min" /\ pc' # "a_initial") => min_pos' = NoPos
        /\ (pc' \in JointPhase /\ dir' = "max" /\ pc' # "a_initial") => min_pos' # NoPos
        /\ (dir = "min" /\ dir' = "max") => (pc = "s_ret" /\ min_pos' = result)
        /\ \A n \in done \ DOMAIN calib :
             /\ pc = "s_ret" /\ dir = "max" /\ n = motor_name
             /\ last_call' = <<"write_goal_position", [m \in {n} |-> calib'[n].center_pos]>>]_vars

\* C25 witness: the first joint's entry is stored and the limit search of
\* the second joint is about to make its first read.
C25_Witness ==
  /\ pc = "s_begin" /\ motor_name = "joint6" /\ dir = "min"
  /\ DOMAIN calib = {"joint1"}
  /\ last_call[1] = "read_present_position" /\ last_call[2] = "joint6"
  /\ error = None

\* The centers of all joints, computed from the recorded limits.
ComputedCenters ==
  [n \in Joints |-> (calib[n].min_pos + calib[n].max_pos) \div 2]

C27_GripperOnlyThroughSetGripper ==
  /\ pc \in {"s_begin", "s_write", "s_read", "s_ret"} => motor_name # "gripper"
  /\ last_call[1] = "write_goal_position" => "gripper" \notin DOMAIN last_call[2]
  /\ last_call[1] = "read_present_position" => last_call[2] # "gripper"

\* C27 witness: on an arm whose first configured motor is the gripper, the
\* limit search of joint1 has commanded a step.
C27_Witness ==
  /\ arm_motors[1][1] = "gripper"
  /\ pc = "s_read" /\ motor_name = "joint1"
  /\ last_call[1] = "write_goal_position" /\ DOMAIN last_call[2] = {"joint1"}

\* ------------------------------------------------------------------------
\* Order of manual calibration (checked under SpecManual)
\* ------------------------------------------------------------------------

\* The operator confirmations a complete manual run takes: two for the
\* poses and, when a gripper is configured, two for the gripper.
RequiredConfirmations ==
  IF \E i \in 1..Len(arm_motors) : arm_motors[i][1] = "gripper" THEN 4 ELSE 2

\* The code waits in input() for the operator.
AtPrompt == pc \in {"m_zero_wait", "m_rot_wait", "m_open_wait", "m_close_wait"}

\* C28: a manual calibration disables torque first; takes the zero snapshot
\* after the first confirmation and the rotated snapshot after the second,
\* both while the only torque call made is the disabling one; re-enables
\* torque only after both snapshots and, with a gripper, two more
\* confirmations; then sets the completion indicator and returns.  It
\* leaves a prompt only through a confirmation and never returns a record
\* before every confirmation was given.
C28_ManualOrder ==
  [][/\ last_call[1] = "none" =>
          \/ last_call'[1] = "none"
          \/ last_call'[1] = "write_torque_enable" /\ last_call'[2] = FALSE
     /\ (last_call'[1] = "read_present_position" /\ pc' # pc) =>
          \/ last_call[1] = "write_torque_enable" /\ last_call[2] = FALSE
          \/ last_call[1] = "read_present_position"
     /\ (DOMAIN zero_positions = {} /\ DOMAIN zero_positions' # {}) =>
          /\ confirmations = 1
          /\ last_call[1] = "write_torque_enable" /\ last_call[2] = FALSE
          /\ last_call'[1] = "read_present_position"
     /\ (DOMAIN rotated_positions = {} /\ DOMAIN rotated_positions' # {}) =>
          /\ confirmations = 2
          /\ DOMAIN zero_positions # {}
          /\ last_call[1] = "read_present_position"
          /\ last_call'[1] = "read_present_position"
     /\ (last_call'[1] = "write_torque_enable" /\ last_call'[2] = TRUE) =>
          /\ last_call[1] = "read_present_position"
          /\ DOMAIN rotated_positions # {}
          /\ confirmations = RequiredConfirmations
     /\ last_call'[1] = "write_led" =>
          /\ last_call[1] = "write_torque_enable" /\ last_call[2] = TRUE
          /\ pc' = "m_return"
     /\ pc' = "m_return" =>
          /\ confirmations' = RequiredConfirmations
          /\ last_call'[1] = "write_led"
     /\ (AtPrompt /\ pc' # pc) =>
          /\ confirmations' = confirmations + 1
          /\ last_call' = last_call
     /\ ~AtPrompt => confirmations' = confirmations]_vars

\* C28 witness: the zero snapshot is taken after one confirmation and the
\* run waits at the second prompt, torque still disabled.
C28_Witness ==
  /\ pc = "m_rot_wait" /\ confirmations = 1
  /\ DOMAIN zero_positions # {} /\ DOMAIN rotated_positions = {}
  /\ last_call[1] = "read_present_position"

\* ------------------------------------------------------------------------
\* The record of automatic calibration (checked under SpecAuto)
\* ------------------------------------------------------------------------

\* All configured motors.
ConfiguredMotors == {arm_motors[i][1] : i \in 1..Len(arm_motors)}

\* C29: the record automatic calibration returns has exactly one entry per
\* configured motor; the entry of a joint is stored once, when its search
\* toward maximum has returned, and holds the initial position read before
\* the joint was moved, the values the two searches returned, center =
\* (min + max) / 2 and range = max - min of those two values; it is not
\* changed afterwards.
C29_AutoRecordContents ==
  [][/\ pc' = "a_return" => DOMAIN calib' = ConfiguredMotors
     /\ \A n \in DOMAIN calib : n \in DOMAIN calib' /\ calib'[n] = calib[n]
     /\ \A n \in (DOMAIN calib' \ DOMAIN calib) \ {"gripper"} :
          /\ n = motor_name /\ pc = "s_ret" /\ dir = "max"
          /\ DOMAIN calib'[n] = {"initial_pos", "min_pos", "max_pos", "center_pos", "range"}
          /\ calib'[n].initial_pos = initial_pos
          /\ calib'[n].min_pos = min_pos
          /\ calib'[n].max_pos = result
          /\ 2 * calib'[n].center_pos = min_pos + result
          /\ calib'[n].range = result - min_pos
     /\ (pc = "a_initial" /\ error' = None /\ pc' # pc) =>
          /\ initial_pos' \in BusRead(motor_name)
          /\ sim = "stops" => initial_pos' = pos[motor_name]
     /\ (pc = "s_ret" /\ dir = "min" /\ error' = None /\ pc' # pc) =>
          (min_pos' = result /\ initial_pos' = initial_pos)
     /\ (pc \in {"s_begin", "s_write", "s_read"}) =>
          (initial_pos' = initial_pos /\ min_pos' = min_pos)]_vars

\* C29 witness: the returned record of a two-joint arm with stops 15 degrees
\* either side of the start: joint1 started at 0, its limits are -15 and +15,
\* its center 0 and its range 30.
C29_Witness ==
  /\ pc = "a_return"
  /\ DOMAIN calib = {"joint1", "joint6"}
  /\ calib["joint1"].initial_pos = 0
  /\ calib["joint1"].min_pos = Deg(-15) /\ calib["joint1"].max_pos = Deg(15)
  /\ calib["joint1"].center_pos = 0 /\ calib["joint1"].range = Deg(30)

\* ------------------------------------------------------------------------
\* Invariant of the adapter (checked under Spec)
\* ------------------------------------------------------------------------

\* C30: on a non-mock bus, whatever calls were made and whichever transport
\* calls failed, a true connected flag implies that the transport handle is
\* present; so every call that passes the connection guard finds a
\* transport.
C30_ConnectedHasTransport ==
  [][/\ \A b \in Buses : (~mock'[b] /\ connected'[b]) => mycobot'[b] # None
     /\ (op'.name \in GuardedOps /\ ~mock[op'.bus] /\ outcome' # "NotConnected") =>
          (connected[op'.bus] /\ mycobot[op'.bus] # None)]_vars

\* C30 witness: power_off() raised inside disconnect() on a non-mock bus;
\* the bus is still connected and still holds its transport.
C30_Witness ==
  /\ op.name = "disconnect" /\ outcome = "TransportError"
  /\ ~mock[op.bus] /\ connected[op.bus] /\ mycobot[op.bus] # None
  /\ tcalls[1].fn = "power_off" /\ tcalls[1].raised

\* ------------------------------------------------------------------------
\* The type check of both calibration procedures (checked under
\* SpecCalibration)
\* ------------------------------------------------------------------------

\* C31: a call of auto or manual calibration with a robot type other than
\* mycobot or an arm type other than 280 raises NotImplementedError as its
\* first step: no torque, indicator, read or motion call was issued, the arm
\* and the adapter are untouched, and nothing follows the exception.
C31_UnsupportedTypeRaisesFirst ==
  [][/\ (pc \in {"a_entry", "m_entry"} /\
         (call_types'[1] # "mycobot" \/ call_types'[2] # "280")) =>
          /\ pc' = (IF pc = "a_entry" THEN "a_raised" ELSE "m_raised")
          /\ error' = "NotImplementedError"
          /\ last_call[1] = "none" /\ last_call' = last_call
          /\ UNCHANGED <<busVars, pos, calib, confirmations>>
     /\ (pc' \in {"a_raised", "m_raised"}) =>
          /\ pc \in {"a_entry", "m_entry"}
          /\ call_types'[1] # "mycobot" \/ call_types'[2] # "280"
     /\ pc \notin {"a_raised", "m_raised"}]_vars

\* C31 witness: manual calibration was called for a mycobot 320 and raised
\* NotImplementedError with no bus call made.
C31_Witness ==
  /\ pc = "m_raised" /\ error = "NotImplementedError"
  /\ call_types = <<"mycobot", "320">>
  /\ last_call[1] = "none"

\* ------------------------------------------------------------------------
\* Properties of the record loop (checked under SpecRecord)
\* ------------------------------------------------------------------------

\* C32: once stop_recording was set during an episode, record_episode is
\* not called again, whatever rerecord_episode and exit_early hold.
C32_NoEpisodeAfterStop ==
  [][~(stopped_in_episode /\ ctl_pc = "r_head" /\ ctl_pc' = "r_episode")]_vars

\* C33: the episodes saved never outnumber cfg.num_episodes; the counter
\* grows by one, and only right after an episode was saved; an episode whose
\* rerecord_episode flag is set when the loop tests it is not saved: the
\* loop resets rerecord_episode and exit_early, clears the buffer and goes
\* back to its head with the counter and the saved episodes unchanged.
C33_SavedEpisodesAndRerecord ==
  [][/\ saved_episodes' <= num_episodes'
     /\ recorded_episodes' # recorded_episodes =>
          /\ ctl_pc = "r_count"
          /\ recorded_episodes' = recorded_episodes + 1
          /\ saved_episodes = recorded_episodes'
     /\ saved_episodes' # saved_episodes =>
          /\ ctl_pc = "r_save"
          /\ saved_episodes' = saved_episodes + 1
     /\ (ctl_pc = "r_rerecord_test" /\ ctl_pc' # ctl_pc) =>
          ctl_pc' = (IF events.rerecord_episode THEN "r_clear_rerecord" ELSE "r_save")
     /\ (ctl_pc = "r_clear_rerecord" /\ ctl_pc' # ctl_pc) =>
          /\ ~events'.rerecord_episode
          /\ ctl_pc' = "r_clear_exit"
     /\ (ctl_pc = "r_clear_exit" /\ ctl_pc' # ctl_pc) =>
          /\ ~events'.exit_early
          /\ ctl_pc' = "r_clear_buffer"
     /\ (ctl_pc = "r_clear_buffer" /\ ctl_pc' = "r_head") =>
          episode_buffer' = "empty"
     /\ ctl_pc \in {"r_clear_rerecord", "r_clear_exit", "r_clear_buffer"} =>
          /\ ctl_pc' \in {"r_clear_rerecord", "r_clear_exit", "r_clear_buffer",
                          "r_head", "r_raised"}
          /\ UNCHANGED <<recorded_episodes, saved_episodes>>]_vars

\* C33 witness: with one episode wanted, the first episode was flagged and
\* dropped, the second was saved and counted, and the loop has ended.
C33_Witness ==
  /\ ctl_pc = "r_done"
  /\ num_episodes = 1 /\ episodes_started = 2
  /\ recorded_episodes = 1 /\ saved_episodes = 1
  /\ episode_buffer = "empty"
  /\ ~events.rerecord_episode

\* ------------------------------------------------------------------------
\* Properties of the calibrate mode (checked under SpecCalibrateMode)
\* ------------------------------------------------------------------------

\* The arm list calibrate works on is empty or names an arm the robot does
\* not have.
InvalidArms ==
  \/ (IF cfg_arms.is_none THEN available_arms ELSE cfg_arms.list) = <<>>
  \/ ~cfg_arms.is_none /\
       \E i \in 1..Len(cfg_arms.list) :
         \A j \in 1..Len(available_arms) : cfg_arms.list[i] # available_arms[j]

\* The robot calls in a call log, without the file removals.
RobotCallsOf(calls) == SelectSeq(calls, LAMBDA c : c[1] # "unlink")

\* C34: calibrate validates the arm list first.  With an empty list or an
\* unknown arm it raises ValueError with no file removed and no disconnect
\* or connect made.  Otherwise every file removal precedes every robot call,
\* the files of all listed arms are gone before the first robot call, and
\* a run that completes ends with connect followed by disconnect, preceded
\* only by the disconnect of a robot that was connected.
C34_CalibrateValidatesFirst ==
  [][/\ (ctl_pc = "c_entry" /\ InvalidArms) =>
          /\ ctl_pc' = "c_raised" /\ ctl_error' = "ValueError"
          /\ robot_calls' = <<>>
          /\ UNCHANGED <<calibration_files, is_connected>>
     /\ (ctl_pc = "c_entry" /\ ~InvalidArms) =>
          /\ ctl_pc' = "c_remove" /\ ctl_error' = None
          /\ robot_calls' = <<>>
          /\ UNCHANGED <<calibration_files, is_connected>>
     /\ ctl_pc = "c_raised" => ctl_pc' = "c_raised"
     /\ \A i \in 1..Len(robot_calls') : \A j \in 1..Len(robot_calls') :
          (i < j /\ robot_calls'[j][1] = "unlink") => robot_calls'[i][1] = "unlink"
     /\ (Len(RobotCallsOf(robot_calls)) = 0 /\ Len(RobotCallsOf(robot_calls')) = 1) =>
          /\ \A i \in 1..Len(cfg_arms.list) : cfg_arms.list[i] \notin calibration_files
          /\ cfg_arms.is_none => calibration_files = {}
          /\ \A i \in 1..Len(robot_calls) : robot_calls[i][2] \notin calibration_files
     /\ ctl_pc' = "c_done" =>
          /\ ~is_connected'
          /\ RobotCallsOf(robot_calls') \in
               { << <<"connect", "robot">>, <<"disconnect", "robot">> >>,
                 << <<"disconnect", "robot">>, <<"connect", "robot">>,
                    <<"disconnect", "robot">> >> }]_vars

\* C34 witness: calibrate of two arms of a connected robot completed; both
\* files were removed, then the robot was disconnected, connected and
\* disconnected.
C34_Witness ==
  /\ ctl_pc = "c_done"
  /\ robot_calls = << <<"unlink", "main">>, <<"unlink", "spare">>,
                      <<"disconnect", "robot">>, <<"connect", "robot">>,
                      <<"disconnect", "robot">> >>

====
